---- MODULE Spec2Model ----
(***************************************************************************)
(* Payload CMS adapter for Better Auth (src/src/adapter/index.ts).         *)
(*                                                                         *)
(* The module models the CustomAdapter the factory of payloadAdapter       *)
(* builds: the lazily resolved store client (getPayload), the translator   *)
(* (getPayloadFieldName, transformDataForPayload, transformDataFromPayload,*)
(* convertWhereToPayload, convertId) and the eight operations with their   *)
(* store calls.                                                            *)
(*                                                                         *)
(* Representation.                                                         *)
(*  - A JavaScript string is a sequence of one-character strings, so that  *)
(*    parseInt and the regular expressions act on its characters.          *)
(*  - A field or model name is a sequence of tokens; the suffixes "Id",    *)
(*    "_id" and the plural "s" are tokens of their own, so that            *)
(*    /(_id|Id)$/ and endsWith('s') look at the last token.  No other      *)
(*    token ends in one of these suffixes.                                 *)
(*  - A JavaScript value is a record [t, s, n]: t is its kind, s the text  *)
(*    of a string, n the value of a number.                                *)
(*  - An object (data, a document) is a function from names to values.     *)
(***************************************************************************)
EXTENDS Integers, Sequences, FiniteSets, TLC

VARIABLES
    idType,             \* 'number' | 'text', fixed at construction
    idFieldsAllowlistSet,
    idFieldsBlocklistSet,
    schema,             \* the schema the factory hands to the adapter
    lazy,               \* payloadClient is a function
    resolvedPayload,    \* the handle, or NoHandle (null)
    resolvePromise,     \* index into promises, or 0 (null)
    promises,           \* the promises payloadClient() returned, in order
    clientCalls,        \* how often payloadClient() was invoked
    procs,              \* concurrent operations (SpecConcurrent)
    op,                 \* the operation in progress (Spec)
    tr,                 \* the last translator application (SpecTranslate)
    store,              \* documents of one collection (SpecStore)
    lk,                 \* the last pair of lookups (SpecStore)
    gen,                \* a construction: its options and what it produced
    plugin              \* the plugin module: authInstance and the payloads

vars == << idType, idFieldsAllowlistSet, idFieldsBlocklistSet, schema, lazy,
           resolvedPayload, resolvePromise, promises, clientCalls, procs, op,
           tr, store, lk, gen, plugin >>

configVars == << idType, idFieldsAllowlistSet, idFieldsBlocklistSet, schema, lazy >>
clientVars == << resolvedPayload, resolvePromise, promises, clientCalls >>
setupVars == << gen, plugin >>

----------------------------------------------------------------------------
(* Bounds *)

\* Longest input text enumerated exhaustively.
MaxStrLen == 2

\* Payload instances the process initialises.
NPayloads == 2

\* createAuth calls followed in one behaviour.
MaxCreateAuth == 3

\* User creations in flight at once.
NCreators == 3
\* Operations in flight at once on one adapter instance.
NProcs == 2

----------------------------------------------------------------------------
(* JavaScript values *)

DigitSeq == << "0", "1", "2", "3", "4", "5", "6", "7", "8", "9" >>
DigitChars == { DigitSeq[i] : i \in 1..10 }
\* The characters of the enumerated texts: two digits and a letter.  No sign
\* and no white space, so parseInt's handling of those is not exercised.
Chars == { "1", "2", "a" }

RECURSIVE TextsOfLen(_)
TextsOfLen(n) ==
    IF n = 0 THEN { << >> }
    ELSE { Append(s, c) : s \in TextsOfLen(n - 1), c \in Chars }

Texts == UNION { TextsOfLen(n) : n \in 0..MaxStrLen }

Str(s) == [t |-> "string", s |-> s, n |-> 0]
Num(n) == [t |-> "number", s |-> << >>, n |-> n]
Null == [t |-> "null", s |-> << >>, n |-> 0]
\* A non-scalar value: a populated relation, an array, a nested object.
Obj == [t |-> "object", s |-> << >>, n |-> 0]
\* A string holding an ISO-8601 timestamp ("2024-01-01T00:00:00Z"), and the
\* Date object new Date() makes of it.
IsoText == [t |-> "string", s |-> << "2", "0", "2", "4", "-", "T" >>, n |-> 0]
DateObj == [t |-> "date", s |-> << >>, n |-> 0]
\* parseInt's NaN.
NaN == [t |-> "NaN", s |-> << >>, n |-> 0]

typeof(v) == IF v.t \in {"null", "date"} THEN "object" ELSE v.t

DigitVal(c) == CHOOSE d \in 0..9 : DigitSeq[d + 1] = c

RECURSIVE DigitsPrefix(_)
DigitsPrefix(s) ==
    IF s = << >> \/ Head(s) \notin DigitChars THEN << >>
    ELSE << Head(s) >> \o DigitsPrefix(Tail(s))

RECURSIVE DecimalValue(_)
DecimalValue(ds) ==
    IF ds = << >> THEN 0
    ELSE 10 * DecimalValue(SubSeq(ds, 1, Len(ds) - 1)) + DigitVal(ds[Len(ds)])

\* parseInt(text, 10): the number its leading decimal digits spell, NaN when
\* it has none.
parseInt(s) ==
    IF DigitsPrefix(s) = << >> THEN NaN ELSE Num(DecimalValue(DigitsPrefix(s)))

isNaN(v) == v.t = "NaN"

\* /^\d+$/.test(text)
AllDigits(s) == Len(s) > 0 /\ \A i \in 1..Len(s) : s[i] \in DigitChars

\* String(n) for an integer n >= 0.
RECURSIVE String(_)
String(n) ==
    IF n < 10 THEN << DigitSeq[n + 1] >>
    ELSE String(n \div 10) \o << DigitSeq[(n % 10) + 1] >>

\* new Date(text) is a valid date.  Only the ISO timestamp is given to date
\* fields as a date; a text without any digit is no date.
DateParses(s) == s = IsoText.s

----------------------------------------------------------------------------
(* Names *)

IdSuffixes == { "Id", "_id" }

\* /(?:Id|_id)$/.test(name)
EndsInIdSuffix(name) == Len(name) > 0 /\ name[Len(name)] \in IdSuffixes

\* name.replace(/(_id|Id)$/, '')
StripIdSuffix(name) ==
    IF EndsInIdSuffix(name) THEN SubSeq(name, 1, Len(name) - 1) ELSE name

\* name.endsWith('s') and name.slice(0, -1)
EndsWithS(name) == Len(name) > 0 /\ name[Len(name)] = "s"
DropLast(name) == SubSeq(name, 1, Len(name) - 1)

k_id == << "id" >>
k_userId == << "user", "Id" >>
k_user == << "user" >>
k_ownerId == << "owner", "Id" >>
k_owner == << "owner" >>
k_team_id == << "team", "_id" >>
k_team == << "team" >>
k_token == << "token" >>
k_role == << "role" >>
k_expiresAt == << "expiresAt" >>
k_activeOrganizationId == << "activeOrganization", "Id" >>
k_customOrgRef == << "customOrgRef" >>

m_session == << "session" >>
m_sessions == << "session", "s" >>
m_audit == << "audit" >>

----------------------------------------------------------------------------
(* Objects *)

EmptyObject == << >>

\* key in object
In(k, o) == k \in DOMAIN o

\* { ...a, ...b }
Spread(a, b) ==
    [k \in (DOMAIN a) \cup (DOMAIN b) |-> IF k \in DOMAIN b THEN b[k] ELSE a[k]]

\* All objects whose keys are among keys, the value of key k among vals[k].
ObjectsOver(keys, vals) ==
    UNION { { o \in [ks -> UNION { vals[k] : k \in ks }] :
                \A k \in ks : o[k] \in vals[k] } : ks \in SUBSET keys }

----------------------------------------------------------------------------
(* The schema and the translator *)

FieldDef(type, references, fieldName) ==
    [type |-> type, references |-> references, fieldName |-> fieldName]

\* The session model: userId and team_id are reference fields,
\* activeOrganizationId ends in Id and is none, expiresAt is a date.
\* mappedUserId is the storage name the options give userId (userId itself
\* when they give none).
SessionFields(mappedUserId) ==
    [k \in { k_userId, k_team_id, k_token, k_expiresAt, k_activeOrganizationId } |->
        CASE k = k_userId -> FieldDef("string", TRUE, mappedUserId)
          [] k = k_team_id -> FieldDef("string", TRUE, k_team_id)
          [] k = k_expiresAt -> FieldDef("date", FALSE, k_expiresAt)
          [] OTHER -> FieldDef("string", FALSE, k)]

SchemaWith(mappedUserId) ==
    [m \in { m_session } |-> [fields |-> SessionFields(mappedUserId)]]

Schemas == { SchemaWith(k_userId), SchemaWith(k_ownerId) }

\* getModelSchema: the key of schema the model resolves to; << >> when none
\* (the source's undefined).
getModelSchema(model) ==
    IF model \in DOMAIN schema THEN model
    ELSE IF (IF EndsWithS(model) THEN DropLast(model) ELSE model) \in DOMAIN schema
         THEN (IF EndsWithS(model) THEN DropLast(model) ELSE model)
         ELSE << >>

\* modelSchema?.fields is defined
HasFields(model) == getModelSchema(model) # << >>

ModelFields(model) == schema[getModelSchema(model)].fields

\* modelSchema?.fields?.[field]?.references
IsReference(model, field) ==
    /\ HasFields(model)
    /\ field \in DOMAIN ModelFields(model)
    /\ ModelFields(model)[field].references

\* The factory's getFieldName({ model, field }): the fieldName the options
\* give the field, the field's own key when they give none.
getFieldName(model, field) ==
    IF HasFields(model) /\ field \in DOMAIN ModelFields(model)
    THEN ModelFields(model)[field].fieldName
    ELSE field

getPayloadFieldName(model, field) ==
    IF IsReference(model, field)
    THEN StripIdSuffix(getFieldName(model, field))
    ELSE getFieldName(model, field)

\* The value convertId and transformDataForPayload make of an ID.
convertId(v) ==
    IF idType = "number" /\ typeof(v) = "string"
    THEN (IF isNaN(parseInt(v.s)) THEN v ELSE parseInt(v.s))
    ELSE IF idType = "text" /\ typeof(v) = "number"
         THEN Str(String(v.n))
         ELSE v

\* The value transformDataForPayload stores for one entry of data.
InboundValue(model, key, value) ==
    IF IsReference(model, key) /\ value.t # "null"
    THEN IF idType = "number" /\ typeof(value) = "string"
         THEN (IF ~ isNaN(parseInt(value.s)) THEN parseInt(value.s) ELSE value)
         ELSE IF idType = "text" /\ typeof(value) = "number"
              THEN Str(String(value.n))
              ELSE value
    ELSE value

\* transformed[payloadKey] = transformedValue for every entry of data.  The
\* data the operations are given never holds two keys with one payload key.
transformDataForPayload(model, data) ==
    IF ~ HasFields(model) THEN data
    ELSE [pk \in { getPayloadFieldName(model, k) : k \in DOMAIN data } |->
            LET k == CHOOSE k \in DOMAIN data : getPayloadFieldName(model, k) = pk
            IN  InboundValue(model, k, data[k])]

\* The loop over the schema's fields: a reference field's key is added when
\* the document holds its stripped name and not the key itself.
RestoreReferenceKeys(model, data) ==
    LET restored == { f \in DOMAIN ModelFields(model) :
                        /\ ModelFields(model)[f].references
                        /\ In(StripIdSuffix(f), data)
                        /\ ~ In(f, data) }
    IN  [k \in (DOMAIN data) \cup restored |->
            IF k \in DOMAIN data THEN data[k] ELSE data[StripIdSuffix(k)]]

\* The same loop's second half: a date field holding a date string gets the
\* Date object.
ConvertDates(model, transformed) ==
    [k \in DOMAIN transformed |->
        IF /\ k \in DOMAIN ModelFields(model)
           /\ ModelFields(model)[k].type = "date"
           /\ typeof(transformed[k]) = "string"
           /\ DateParses(transformed[k].s)
        THEN DateObj
        ELSE transformed[k]]

\* A faulty variant: the allow-list is tested last and wins over the block-list.
ConvertIdFieldsAllowWins(transformed) ==
    IF idType = "number"
    THEN [k \in DOMAIN transformed |->
            IF /\ typeof(transformed[k]) = "string"
               /\ \/ (EndsInIdSuffix(k) /\ k \notin idFieldsBlocklistSet)
                  \/ k \in idFieldsAllowlistSet
               /\ AllDigits(transformed[k].s)
            THEN parseInt(transformed[k].s)
            ELSE transformed[k]]
    ELSE transformed

\* The last loop: semantic ID fields become numbers with serial IDs.
ConvertIdFields(transformed) ==
    IF idType = "number"
    THEN [k \in DOMAIN transformed |->
            IF /\ typeof(transformed[k]) = "string"
               /\ (EndsInIdSuffix(k) \/ k \in idFieldsAllowlistSet)
               /\ k \notin idFieldsBlocklistSet
               /\ AllDigits(transformed[k].s)
            THEN parseInt(transformed[k].s)
            ELSE transformed[k]]
    ELSE transformed

transformDataFromPayload(model, data) ==
    IF ~ HasFields(model) THEN data
    ELSE ConvertIdFields(ConvertDates(model, RestoreReferenceKeys(model, data)))

convertOperator(operator, value) ==
    CASE operator = "eq" -> [equals |-> value]
      [] operator = "ne" -> [not_equals |-> value]
      [] operator = "gt" -> [greater_than |-> value]
      [] operator = "gte" -> [greater_than_equal |-> value]
      [] operator = "lt" -> [less_than |-> value]
      [] operator = "lte" -> [less_than_equal |-> value]
      [] operator = "in" -> [in |-> value]
      [] operator = "contains" -> [contains |-> value]
      [] operator = "starts_with" -> [like |-> [at |-> "start", of |-> value]]
      [] operator = "ends_with" -> [like |-> [at |-> "end", of |-> value]]
      [] OTHER -> [equals |-> value]

\* The result is a value (string or number) or NoId (the source's null).
NoId == [t |-> "none", s |-> << >>, n |-> 0]

\* A faulty variant: the operator is not looked at.
extractSingleIdAnyOperator(where) ==
    IF Len(where) # 1 THEN NoId
    ELSE IF /\ where[1].field = k_id
            /\ typeof(where[1].value) \in { "string", "number" }
         THEN where[1].value
         ELSE NoId

extractSingleId(where) ==
    IF Len(where) # 1 THEN NoId
    ELSE IF /\ where[1].field = k_id
            /\ where[1].operator = "eq"
            /\ typeof(where[1].value) \in { "string", "number" }
         THEN where[1].value
         ELSE NoId

\* One condition of a Payload where: { [field]: { [operator]: value } }.
Condition(model, w) ==
    [field |-> getPayloadFieldName(model, w.field),
     cond |-> convertOperator(w.operator, w.value)]

\* A faulty variant: every predicate goes to both lists.
FilterConnectorAll(where, isOr) == where

\* where.filter(p), in order
RECURSIVE FilterConnector(_, _)
FilterConnector(where, isOr) ==
    IF where = << >> THEN << >>
    ELSE IF (Head(where).connector = "OR") = isOr
         THEN << Head(where) >> \o FilterConnector(Tail(where), isOr)
         ELSE FilterConnector(Tail(where), isOr)

\* A Payload where: {} (shape "empty"), one bare condition (shape "field")
\* or the lists and / or (shape "groups"; an empty list is an absent key).
convertWhereToPayload(model, where) ==
    IF Len(where) = 0
    THEN [shape |-> "empty", one |-> << >>, and |-> << >>, or |-> << >>]
    ELSE IF Len(where) = 1
         THEN [shape |-> "field", one |-> << Condition(model, where[1]) >>,
               and |-> << >>, or |-> << >>]
         ELSE [shape |-> "groups", one |-> << >>,
               and |-> [i \in 1..Len(FilterConnector(where, FALSE)) |->
                          Condition(model, FilterConnector(where, FALSE)[i])],
               or |-> [i \in 1..Len(FilterConnector(where, TRUE)) |->
                          Condition(model, FilterConnector(where, TRUE)[i])]]

----------------------------------------------------------------------------
(* Configurations an adapter is constructed with *)

IdTypes == { "number", "text" }
Allowlists == { {}, { k_customOrgRef } }
Blocklists == SUBSET { k_activeOrganizationId, k_customOrgRef }

NoHandle == 0

\* The state right after payloadAdapter(config)(options) returned.
InitAdapter ==
    /\ idType \in IdTypes
    /\ idFieldsAllowlistSet \in Allowlists
    /\ idFieldsBlocklistSet \in Blocklists
    /\ schema \in Schemas
    /\ lazy \in BOOLEAN
    /\ resolvedPayload = NoHandle
    /\ resolvePromise = 0
    /\ promises = << >>
    /\ clientCalls = 0

----------------------------------------------------------------------------
(* The lazily resolved store client *)

\* What a promise of payloadClient() holds.
Pending == [state |-> "pending", handle |-> NoHandle]
Fulfilled(h) == [state |-> "fulfilled", handle |-> h]
Rejected == [state |-> "rejected", handle |-> NoHandle]

\* resolvePayloadClient(): a function is invoked, and every invocation may
\* return another handle; an instance is returned as it is.  Either way the
\* caller holds a new promise.
resolvePayloadClient ==
    /\ clientCalls' = IF lazy THEN clientCalls + 1 ELSE clientCalls
    /\ promises' = Append(promises, Pending)
    /\ resolvePromise' = Len(promises) + 1
    /\ UNCHANGED resolvedPayload

\* A faulty variant: no test of resolvePromise, every call before the first
\* resolution starts another one.
getPayloadUngated ==
    IF resolvedPayload # NoHandle THEN UNCHANGED clientVars
    ELSE resolvePayloadClient

\* A faulty variant: a rejected resolution is dropped and the next call
\* starts another one.
getPayloadRetries ==
    IF resolvedPayload # NoHandle THEN UNCHANGED clientVars
    ELSE IF resolvePromise = 0 THEN resolvePayloadClient
         ELSE IF promises[resolvePromise].state = "rejected" THEN resolvePayloadClient
              ELSE UNCHANGED clientVars

\* getPayload(), up to the promise it returns.
getPayload ==
    IF resolvedPayload # NoHandle THEN UNCHANGED clientVars
    ELSE IF resolvePromise = 0 THEN resolvePayloadClient
         ELSE UNCHANGED clientVars

\* The promise the caller of getPayload() awaits: 0 when it was given
\* resolvedPayload itself.
AwaitedPromise == IF resolvedPayload # NoHandle THEN 0 ELSE resolvePromise'

\* The handle promise i resolves to: the instance, or what the i-th
\* invocation of the function returned.
HandleOf(i) == IF lazy THEN i ELSE 1

\* Promise i settles; the .then callback of getPayload stores the handle.
SettlePromise(i, ok) ==
    /\ i \in 1..Len(promises)
    /\ promises[i].state = "pending"
    /\ (IF lazy THEN TRUE ELSE ok)
    /\ promises' = [promises EXCEPT ![i] = IF ok THEN Fulfilled(HandleOf(i)) ELSE Rejected]
    /\ resolvedPayload' = IF ok THEN HandleOf(i) ELSE resolvedPayload
    /\ UNCHANGED << resolvePromise, clientCalls, setupVars >>

\* An awaiting caller may go on: it was given the handle, or its promise settled.
Settled(awaiting) ==
    IF awaiting = 0 THEN TRUE ELSE promises[awaiting].state # "pending"
ClientFailed(awaiting) ==
    IF awaiting = 0 THEN FALSE ELSE promises[awaiting].state = "rejected"
ClientOf(awaiting, given) == IF awaiting = 0 THEN given ELSE promises[awaiting].handle

\* The error a rejected payloadClient() gives every caller.
ClientError == [isError |-> TRUE, hasStatus |-> FALSE, status |-> 0, from |-> "client"]

----------------------------------------------------------------------------
(* SpecConcurrent: operations in flight at once on one adapter *)

OpKinds == { "create", "findOne", "findMany", "update", "updateMany", "delete",
             "deleteMany", "count" }

Procs == 1..NProcs

ProcIdle ==
    [pc |-> "idle", kind |-> "none", awaiting |-> 0, client |-> NoHandle, early |-> FALSE,
     afterRejection |-> FALSE]

InitConcurrent ==
    /\ InitAdapter
    /\ idFieldsAllowlistSet = {}
    /\ idFieldsBlocklistSet = {}
    /\ schema = SchemaWith(k_userId)
    /\ idType = "number"
    /\ procs = [p \in Procs |-> ProcIdle]
    /\ op = << >>
    /\ tr = << >>
    /\ store = << >>
    /\ lk = << >>
    /\ gen = << >>
    /\ plugin = << >>

\* An operation is called: every one of the eight starts with
\* `const payload = await getPayload()`.
PCall(p, kind) ==
    /\ procs[p].pc = "idle"
    /\ getPayload
    /\ procs' = [procs EXCEPT ![p] =
                    [pc |-> "awaitPayload", kind |-> kind, awaiting |-> AwaitedPromise,
                     client |-> resolvedPayload, early |-> resolvedPayload = NoHandle,
                     afterRejection |-> ClientFailed(resolvePromise)]]
    /\ UNCHANGED << configVars, op, tr, store, lk, setupVars >>

PSettle(i, ok) ==
    /\ SettlePromise(i, ok)
    /\ UNCHANGED << configVars, procs, op, tr, store, lk, setupVars >>

\* The await returns: the operation goes on to its store call with the
\* handle, or rejects with the client's error.
PResume(p) ==
    /\ procs[p].pc = "awaitPayload"
    /\ Settled(procs[p].awaiting)
    /\ procs' = [procs EXCEPT ![p] =
                    IF ClientFailed(procs[p].awaiting)
                    THEN [@ EXCEPT !.pc = "rejected"]
                    ELSE [@ EXCEPT !.pc = "calling",
                                   !.client = ClientOf(procs[p].awaiting, procs[p].client)]]
    /\ UNCHANGED << configVars, clientVars, op, tr, store, lk, setupVars >>

\* The operation ends (its store call answered, or it rejected).
PReturn(p) ==
    /\ procs[p].pc \in { "calling", "rejected" }
    /\ procs' = [procs EXCEPT ![p] = ProcIdle]
    /\ UNCHANGED << configVars, clientVars, op, tr, store, lk, setupVars >>

NextConcurrent ==
    \/ \E p \in Procs, kind \in OpKinds : PCall(p, kind)
    \/ \E i \in 1..Len(promises), ok \in BOOLEAN : PSettle(i, ok)
    \/ \E p \in Procs : PResume(p)
    \/ \E p \in Procs : PReturn(p)

SpecConcurrent == InitConcurrent /\ [][NextConcurrent]_vars

\* C1: a lazy payloadClient function is invoked at most once per adapter,
\* whatever the interleaving of the operations, and every operation that got
\* a client handle got the same one.
C1_ResolvedAtMostOnce ==
    /\ clientCalls <= 1
    /\ \A p, q \in Procs :
          (procs[p].pc = "calling" /\ procs[q].pc = "calling")
              => procs[p].client = procs[q].client

\* Two operations that both started before the client was resolved hold a
\* handle of the lazy function.
C1_Witness ==
    /\ lazy
    /\ \E p, q \in Procs :
          /\ p # q
          /\ procs[p].pc = "calling" /\ procs[q].pc = "calling"
          /\ procs[p].early /\ procs[q].early
          /\ procs[p].client # NoHandle

\* C28: once the resolution of a lazy payloadClient is rejected, the
\* function is not invoked again and the rejected promise is kept; every
\* operation called from then on awaits that promise, and every operation
\* awaiting it rejects without going on to its store call.
C28_RejectedClientKept ==
    [][ (lazy /\ ClientFailed(resolvePromise)) =>
            /\ clientCalls' = clientCalls
            /\ promises' = promises
            /\ resolvePromise' = resolvePromise
            /\ resolvedPayload' = NoHandle
            /\ \A p \in Procs :
                   /\ procs'[p].pc # "calling"
                   /\ (procs[p].pc = "idle" /\ procs'[p].pc # "idle") =>
                          (procs'[p].pc = "awaitPayload"
                              /\ procs'[p].awaiting = resolvePromise)
                   /\ (procs[p].pc = "awaitPayload" /\ procs'[p].pc # "awaitPayload") =>
                          procs'[p].pc = "rejected"
      ]_vars

\* An operation called after the rejection has rejected, and the function
\* was invoked once.
C28_Witness ==
    /\ lazy
    /\ clientCalls = 1
    /\ \E p \in Procs : procs[p].afterRejection /\ procs[p].pc = "rejected"

----------------------------------------------------------------------------
(* The operations and their store calls *)

Undefined == [t |-> "undefined", s |-> << >>, n |-> 0]
NoWhere == [shape |-> "none", one |-> << >>, and |-> << >>, or |-> << >>]
NoSort == [field |-> << >>, direction |-> "none"]

\* A call of the Local API that passes none of the optional arguments.
CallOf(method, collection) ==
    [method |-> method, collection |-> collection, byId |-> FALSE, id |-> NoId,
     where |-> NoWhere, data |-> EmptyObject, limit |-> Undefined,
     page |-> Undefined, sort |-> NoSort, depth |-> Undefined,
     overrideAccess |-> FALSE]

NoCall == CallOf("none", << >>)

\* The factory's getModelName with usePlural: the plural collection name.
getModelName(model) == IF EndsWithS(model) THEN model ELSE Append(model, "s")

getCollection(model) == getModelName(model)

\* depth: join ? 1 : 0
Depth(join) == IF join THEN Num(1) ELSE Num(0)

\* payload.create({ collection, data, depth: 0, overrideAccess: true })
CreateCall(collection, payloadData) ==
    [CallOf("create", collection) EXCEPT
        !.data = payloadData, !.depth = Num(0), !.overrideAccess = TRUE]

\* payload.findByID({ collection, id, depth, overrideAccess: true })
FindByIDCall(collection, docId, join) ==
    [CallOf("findByID", collection) EXCEPT
        !.byId = TRUE, !.id = docId, !.depth = Depth(join), !.overrideAccess = TRUE]

\* payload.find({ collection, where, limit: 1, depth, overrideAccess: true })
FindOneCall(collection, payloadWhere, join) ==
    [CallOf("find", collection) EXCEPT
        !.where = payloadWhere, !.limit = Num(1), !.depth = Depth(join),
        !.overrideAccess = TRUE]

\* limit ?? 100
DefaultLimit == 100
LimitOf(limit) == IF limit.t = "undefined" THEN Num(DefaultLimit) ELSE limit

\* A faulty variant: pages counted from 0.
PageOfZeroBased(limit, offset) ==
    IF offset.t = "undefined" \/ offset.n = 0 THEN Num(1)
    ELSE Num(offset.n \div LimitOf(limit).n)

\* offset ? Math.floor(offset / (limit ?? 100)) + 1 : 1
PageOf(limit, offset) ==
    IF offset.t = "undefined" \/ offset.n = 0 THEN Num(1)
    ELSE Num((offset.n \div LimitOf(limit).n) + 1)

\* sortBy ? `${direction === 'desc' ? '-' : ''}${getPayloadFieldName(...)}` : undefined
SortOf(model, sortBy) ==
    IF sortBy.direction = "none" THEN NoSort
    ELSE [field |-> getPayloadFieldName(model, sortBy.field),
          direction |-> IF sortBy.direction = "desc" THEN "desc" ELSE "asc"]

\* payload.find({ collection, where, limit, page, sort, depth, overrideAccess: true })
FindManyCall(collection, payloadWhere, limit, page, sort, join) ==
    [CallOf("find", collection) EXCEPT
        !.where = payloadWhere, !.limit = limit, !.page = page, !.sort = sort,
        !.depth = Depth(join), !.overrideAccess = TRUE]

\* payload.update({ collection, id, data, depth: 0, overrideAccess: true })
UpdateByIDCall(collection, docId, payloadData) ==
    [CallOf("update", collection) EXCEPT
        !.byId = TRUE, !.id = docId, !.data = payloadData, !.depth = Num(0),
        !.overrideAccess = TRUE]

\* payload.update({ collection, where, data, depth: 0, overrideAccess: true })
UpdateWhereCall(collection, payloadWhere, payloadData) ==
    [CallOf("update", collection) EXCEPT
        !.where = payloadWhere, !.data = payloadData, !.depth = Num(0),
        !.overrideAccess = TRUE]

\* payload.delete({ collection, id, overrideAccess: true })
DeleteByIDCall(collection, docId) ==
    [CallOf("delete", collection) EXCEPT
        !.byId = TRUE, !.id = docId, !.overrideAccess = TRUE]

\* payload.delete({ collection, where, overrideAccess: true })
DeleteWhereCall(collection, payloadWhere) ==
    [CallOf("delete", collection) EXCEPT
        !.where = payloadWhere, !.overrideAccess = TRUE]

\* A faulty variant: the count call without the flag.
CountCallNoOverride(collection, payloadWhere) ==
    [CallOf("count", collection) EXCEPT !.where = payloadWhere]

\* payload.count({ collection, where, overrideAccess: true })
CountCall(collection, payloadWhere) ==
    [CallOf("count", collection) EXCEPT
        !.where = payloadWhere, !.overrideAccess = TRUE]

\* The arguments of one call of an operation; an operation ignores those it
\* does not take.  where is absent (hasWhere FALSE) only for findMany and count.
Args(kind, model, hasWhere, where, data, limit, offset, sortBy, join) ==
    [kind |-> kind, model |-> model, hasWhere |-> hasWhere, where |-> where,
     data |-> data, limit |-> limit, offset |-> offset, sortBy |-> sortBy,
     join |-> join]

\* where ? convertWhereToPayload(model, where) : {}
OptionalWhere(a) ==
    IF a.hasWhere THEN convertWhereToPayload(a.model, a.where)
    ELSE convertWhereToPayload(a.model, << >>)

\* The store call the operation issues once it holds the client.
IssuedCall(a) ==
    CASE a.kind = "create" ->
            CreateCall(getCollection(a.model), transformDataForPayload(a.model, a.data))
      [] a.kind = "findOne" ->
            IF extractSingleId(a.where) # NoId
            THEN FindByIDCall(getCollection(a.model),
                              convertId(extractSingleId(a.where)), a.join)
            ELSE FindOneCall(getCollection(a.model),
                             convertWhereToPayload(a.model, a.where), a.join)
      [] a.kind = "findMany" ->
            FindManyCall(getCollection(a.model), OptionalWhere(a), LimitOf(a.limit),
                         PageOf(a.limit, a.offset), SortOf(a.model, a.sortBy), a.join)
      [] a.kind = "update" ->
            IF extractSingleId(a.where) # NoId
            THEN UpdateByIDCall(getCollection(a.model),
                                convertId(extractSingleId(a.where)),
                                transformDataForPayload(a.model, a.data))
            ELSE UpdateWhereCall(getCollection(a.model),
                                 convertWhereToPayload(a.model, a.where),
                                 transformDataForPayload(a.model, a.data))
      [] a.kind = "updateMany" ->
            UpdateWhereCall(getCollection(a.model),
                            convertWhereToPayload(a.model, a.where),
                            transformDataForPayload(a.model, a.data))
      [] a.kind = "delete" ->
            IF extractSingleId(a.where) # NoId
            THEN DeleteByIDCall(getCollection(a.model),
                                convertId(extractSingleId(a.where)))
            ELSE DeleteWhereCall(getCollection(a.model),
                                 convertWhereToPayload(a.model, a.where))
      [] a.kind = "deleteMany" ->
            DeleteWhereCall(getCollection(a.model),
                            convertWhereToPayload(a.model, a.where))
      [] OTHER ->
            CountCall(getCollection(a.model), OptionalWhere(a))

\* What the store answers: a document, a list of documents, a count, or a
\* thrown value.
DocAnswer(doc) == [kind |-> "doc", doc |-> doc, docs |-> << >>, n |-> 0, err |-> << >>]
DocsAnswer(docs) == [kind |-> "docs", doc |-> << >>, docs |-> docs, n |-> 0, err |-> << >>]
CountAnswer(n) == [kind |-> "count", doc |-> << >>, docs |-> << >>, n |-> n, err |-> << >>]
Throws(e) == [kind |-> "throw", doc |-> << >>, docs |-> << >>, n |-> 0, err |-> e]
NoAnswer == [kind |-> "none", doc |-> << >>, docs |-> << >>, n |-> 0, err |-> << >>]

\* The status of the store's NotFound error.
NotFoundStatus == 404

\* A faulty variant: any error that carries a status counts as not-found.
IsNotFoundAnyStatus(e) == e.isError /\ e.hasStatus

\* error instanceof Error && 'status' in error && error.status === 404
IsNotFound(e) == e.isError /\ e.hasStatus /\ e.status = NotFoundStatus

\* What an operation gives its caller.
ReturnsObject(o) ==
    [status |-> "fulfilled", t |-> "object", obj |-> o, list |-> << >>, n |-> 0, err |-> << >>]
ReturnsNull ==
    [status |-> "fulfilled", t |-> "null", obj |-> << >>, list |-> << >>, n |-> 0, err |-> << >>]
ReturnsList(l) ==
    [status |-> "fulfilled", t |-> "array", obj |-> << >>, list |-> l, n |-> 0, err |-> << >>]
ReturnsNumber(n) ==
    [status |-> "fulfilled", t |-> "number", obj |-> << >>, list |-> << >>, n |-> n, err |-> << >>]
ReturnsVoid ==
    [status |-> "fulfilled", t |-> "undefined", obj |-> << >>, list |-> << >>, n |-> 0, err |-> << >>]
Rejects(e) ==
    [status |-> "rejected", t |-> "undefined", obj |-> << >>, list |-> << >>, n |-> 0, err |-> e]
NoOutcome ==
    [status |-> "pending", t |-> "undefined", obj |-> << >>, list |-> << >>, n |-> 0, err |-> << >>]

\* A faulty variant: the input spread last, so that the caller's values win.
MergedResultInputWins(a, doc) == Spread(transformDataFromPayload(a.model, doc), a.data)

\* { ...data, ...transformed } of create and update
MergedResult(a, doc) == Spread(a.data, transformDataFromPayload(a.model, doc))

\* The handler's result when the store call succeeded.
ResultOf(a, c, r) ==
    CASE a.kind = "create" -> ReturnsObject(MergedResult(a, r.doc))
      [] a.kind = "findOne" ->
            IF c.byId THEN ReturnsObject(transformDataFromPayload(a.model, r.doc))
            ELSE IF Len(r.docs) = 0 THEN ReturnsNull
                 ELSE ReturnsObject(transformDataFromPayload(a.model, r.docs[1]))
      [] a.kind = "findMany" ->
            ReturnsList([i \in 1..Len(r.docs) |->
                            transformDataFromPayload(a.model, r.docs[i])])
      [] a.kind = "update" ->
            IF c.byId THEN ReturnsObject(MergedResult(a, r.doc))
            ELSE IF Len(r.docs) = 0 THEN ReturnsNull
                 ELSE ReturnsObject(MergedResult(a, r.docs[1]))
      [] a.kind = "updateMany" -> ReturnsNumber(Len(r.docs))
      [] a.kind = "delete" -> ReturnsVoid
      [] a.kind = "deleteMany" -> ReturnsNumber(Len(r.docs))
      [] OTHER -> ReturnsNumber(r.n)

\* A faulty variant: count answers 0 when its store call fails.
OutcomeCountSwallows(a, c, r) ==
    IF r.kind = "throw"
    THEN IF a.kind = "findOne" /\ c.byId /\ IsNotFound(r.err)
         THEN ReturnsNull
         ELSE IF a.kind = "count" THEN ReturnsNumber(0) ELSE Rejects(r.err)
    ELSE ResultOf(a, c, r)

\* The rest of the handler after the store answered r to call c: only the
\* inner catch of findOne turns a thrown value into a result.
Outcome(a, c, r) ==
    IF r.kind = "throw"
    THEN IF a.kind = "findOne" /\ c.byId /\ IsNotFound(r.err)
         THEN ReturnsNull
         ELSE Rejects(r.err)
    ELSE ResultOf(a, c, r)

\* console.error of the catch blocks: create and findOne have one.
ErrorLog(a, c, r) ==
    IF r.kind = "throw" /\ Outcome(a, c, r).status = "rejected"
       /\ a.kind \in { "create", "findOne" }
    THEN << [message |-> a.kind, model |-> a.model] >>
    ELSE << >>

----------------------------------------------------------------------------
(* Spec: the operations of one adapter, called one after the other *)

P(field, operator, value, connector) ==
    [field |-> field, operator |-> operator, value |-> value, connector |-> connector]

Text12 == Str(<< "1", "2" >>)
TextA == Str(<< "a" >>)

SinglePredicates ==
    { P(f, o, v, "AND") : f \in { k_id, k_userId }, o \in { "eq", "ne" },
                          v \in { Text12, TextA, Num(12), Obj } }
SecondPredicates ==
    { P(f, "eq", Text12, c) : f \in { k_id, k_token }, c \in { "AND", "OR" } }

Wheres ==
    { << >> }
    \cup { << p >> : p \in SinglePredicates }
    \cup { << p, q >> : p \in { P(k_id, "eq", Text12, "AND"), P(k_userId, "eq", Text12, "OR") },
                        q \in SecondPredicates }
    \cup { << P(k_token, "eq", TextA, "AND"), P(k_userId, "eq", Text12, "OR"),
               P(k_id, "ne", TextA, "AND") >>,
            << P(k_userId, "eq", Text12, "OR"), P(k_token, "eq", TextA, "OR"),
               P(k_id, "eq", Text12, "AND") >> }

DataSamples ==
    { (k_userId :> Text12) @@ (k_token :> TextA),
      (k_userId :> Num(12)) @@ (k_role :> Str(<< "user" >>)),
      (k_role :> Str(<< "user" >>)) @@ (k_id :> Text12) }

Doc1 == (k_id :> Num(7)) @@ (k_user :> Num(12)) @@ (k_token :> TextA)
Doc2 == (k_id :> Str(<< "7" >>)) @@ (k_role :> Str(<< "admin" >>)) @@ (k_userId :> Text12)
Doc3 == (k_id :> Num(7)) @@ (k_user :> Text12) @@ (k_expiresAt :> IsoText)
StoreDocs == { Doc1, Doc2, Doc3 }
StoreLists == { << >>, << Doc1 >>, << Doc2, Doc1 >> }

\* Values a store call throws: the NotFound error, another API error, a
\* TypeError (no status), and a thrown object that is no Error.
ApiError(status) == [isError |-> TRUE, hasStatus |-> TRUE, status |-> status, from |-> "store"]
TypeError == [isError |-> TRUE, hasStatus |-> FALSE, status |-> 0, from |-> "store"]
ThrownObject(status) == [isError |-> FALSE, hasStatus |-> TRUE, status |-> status, from |-> "store"]
StoreErrors ==
    { ApiError(NotFoundStatus), ApiError(500), TypeError,
      ThrownObject(NotFoundStatus) }

OpModels == { m_session, m_audit }
Limits == { Undefined, Num(2) }
Offsets == { Undefined, Num(0), Num(3), Num(4), Num(200) }
Sorts == { NoSort, [field |-> k_userId, direction |-> "desc"] }

OpArgs ==
    { Args("create", m, TRUE, << >>, d, Undefined, Undefined, NoSort, FALSE) :
        m \in OpModels, d \in DataSamples }
    \cup { Args("findOne", m, TRUE, w, EmptyObject, Undefined, Undefined, NoSort, j) :
        m \in OpModels, w \in Wheres, j \in BOOLEAN }
    \cup { Args("findMany", m_session, TRUE, w, EmptyObject, l, o, s, FALSE) :
        w \in Wheres, l \in Limits, o \in Offsets, s \in Sorts }
    \cup { Args("findMany", m_session, FALSE, << >>, EmptyObject, l, o, NoSort, TRUE) :
        l \in Limits, o \in Offsets }
    \cup { Args(k, m_session, TRUE, w, d, Undefined, Undefined, NoSort, FALSE) :
        k \in { "update", "updateMany" }, w \in Wheres, d \in DataSamples }
    \cup { Args(k, m_session, TRUE, w, EmptyObject, Undefined, Undefined, NoSort, FALSE) :
        k \in { "delete", "deleteMany", "count" }, w \in Wheres }
    \cup { Args("count", m_session, FALSE, << >>, EmptyObject, Undefined, Undefined, NoSort, FALSE) }

NoArgs == Args("none", << >>, FALSE, << >>, EmptyObject, Undefined, Undefined, NoSort, FALSE)

\* What the store may answer to a call.
AnswersTo(c) ==
    { Throws(e) : e \in StoreErrors }
    \cup (IF c.byId \/ c.method = "create" THEN { DocAnswer(d) : d \in StoreDocs }
          ELSE IF c.method = "count" THEN { CountAnswer(n) : n \in 0..2 }
          ELSE { DocsAnswer(l) : l \in StoreLists })

IdleOp ==
    [pc |-> "idle", args |-> NoArgs, awaiting |-> 0, client |-> NoHandle,
     call |-> NoCall, ncalls |-> 0, answer |-> NoAnswer, outcome |-> NoOutcome,
     logged |-> << >>]

Init ==
    /\ InitAdapter
    /\ idFieldsAllowlistSet = {}
    /\ idFieldsBlocklistSet = {}
    /\ schema = SchemaWith(k_userId)
    /\ op = IdleOp
    /\ procs = << >>
    /\ tr = << >>
    /\ store = << >>
    /\ lk = << >>
    /\ gen = << >>
    /\ plugin = << >>

\* The auth engine calls an operation: the handler runs to `await getPayload()`.
Call(a) ==
    /\ op.pc = "idle"
    /\ getPayload
    /\ op' = [IdleOp EXCEPT !.pc = "awaitPayload", !.args = a,
                            !.awaiting = AwaitedPromise, !.client = resolvedPayload]
    /\ UNCHANGED << configVars, procs, tr, store, lk, setupVars >>

ClientSettles(i, ok) ==
    /\ SettlePromise(i, ok)
    /\ UNCHANGED << configVars, procs, op, tr, store, lk, setupVars >>

\* The await returns: the handler translates its arguments and issues its
\* store call, or rejects with the client's error.
Resume ==
    /\ op.pc = "awaitPayload"
    /\ Settled(op.awaiting)
    /\ op' = IF ClientFailed(op.awaiting)
             THEN [op EXCEPT !.pc = "done", !.outcome = Rejects(ClientError)]
             ELSE [op EXCEPT !.pc = "awaitStore",
                             !.client = ClientOf(op.awaiting, op.client),
                             !.call = IssuedCall(op.args),
                             !.ncalls = op.ncalls + 1]
    /\ UNCHANGED << configVars, clientVars, procs, tr, store, lk, setupVars >>

\* The store answers and the handler runs to its end.
StoreAnswers(r) ==
    /\ op.pc = "awaitStore"
    /\ r \in AnswersTo(op.call)
    /\ op' = [op EXCEPT !.pc = "done", !.answer = r,
                        !.outcome = Outcome(op.args, op.call, r),
                        !.logged = ErrorLog(op.args, op.call, r)]
    /\ UNCHANGED << configVars, clientVars, procs, tr, store, lk, setupVars >>

\* The caller has the result; the adapter keeps nothing of the call.
Return ==
    /\ op.pc = "done"
    /\ op' = IdleOp
    /\ UNCHANGED << configVars, clientVars, procs, tr, store, lk, setupVars >>

AllAnswers ==
    { Throws(e) : e \in StoreErrors } \cup { DocAnswer(d) : d \in StoreDocs }
    \cup { CountAnswer(n) : n \in 0..2 } \cup { DocsAnswer(l) : l \in StoreLists }

Next ==
    \/ \E a \in OpArgs : Call(a)
    \/ \E i \in 1..Len(promises), ok \in BOOLEAN : ClientSettles(i, ok)
    \/ Resume
    \/ \E r \in AllAnswers : StoreAnswers(r)
    \/ Return

Spec == Init /\ [][Next]_vars

----------------------------------------------------------------------------
(* Claims about the operations (Spec) *)

\* The store document create and update build their result from.
ResultDoc == IF op.answer.kind = "doc" THEN op.answer.doc ELSE op.answer.docs[1]

ReturnedMerged ==
    /\ op.pc = "done"
    /\ op.args.kind \in { "create", "update" }
    /\ op.outcome.status = "fulfilled"
    /\ op.outcome.t = "object"

\* C2: the record create and update return is the input overlaid with the
\* outbound-translated store result: the store's value on every key the
\* translated result holds, the input's value on every other key of the input.
C2_StoreResultOverInput ==
    ReturnedMerged =>
        LET translated == transformDataFromPayload(op.args.model, ResultDoc)
            returned == op.outcome.obj
        IN  /\ DOMAIN returned = (DOMAIN op.args.data) \cup (DOMAIN translated)
            /\ \A k \in DOMAIN translated : returned[k] = translated[k]
            /\ \A k \in (DOMAIN op.args.data) \ (DOMAIN translated) :
                  returned[k] = op.args.data[k]

\* create was given role 'user', the store persisted role 'admin', and the
\* record returned holds 'admin'.
C2_Witness ==
    /\ ReturnedMerged
    /\ op.args.kind = "create"
    /\ In(k_role, op.args.data) /\ op.args.data[k_role] = Str(<< "user" >>)
    /\ In(k_role, ResultDoc) /\ ResultDoc[k_role] = Str(<< "admin" >>)
    /\ op.outcome.obj[k_role] = Str(<< "admin" >>)

\* The point lookup of findOne threw.
PointLookupThrew ==
    /\ op.pc = "done"
    /\ op.args.kind = "findOne"
    /\ op.call.method = "findByID"
    /\ op.answer.kind = "throw"

\* C3: when the point lookup of findOne throws an Error with status 404,
\* findOne returns null; any other thrown value rejects findOne with that value.
C3_NotFoundIsNull ==
    PointLookupThrew =>
        IF op.answer.err.isError /\ op.answer.err.hasStatus /\ op.answer.err.status = 404
        THEN op.outcome = ReturnsNull
        ELSE op.outcome = Rejects(op.answer.err)

\* findOne by id returned null on the store's NotFound error.
C3_Witness ==
    /\ PointLookupThrew
    /\ op.answer.err = ApiError(404)
    /\ op.outcome = ReturnsNull

\* The store call failed, and not with the not-found of a point lookup.
StoreCallFailed ==
    /\ op.pc = "done"
    /\ op.answer.kind = "throw"
    /\ ~ (op.call.byId /\ op.answer.err = ApiError(404))

\* C4: whichever the operation, a failed store call (other than a point
\* lookup's not-found) rejects the operation with the value the store threw,
\* and the operation has issued that one store call only.
C4_StoreErrorRethrown ==
    StoreCallFailed => (op.outcome = Rejects(op.answer.err) /\ op.ncalls = 1)

\* count failed with a server error and rejected with it.
C4_Witness ==
    /\ StoreCallFailed
    /\ op.args.kind = "count"
    /\ op.answer.err = ApiError(500)
    /\ op.outcome = Rejects(ApiError(500))

\* C5: every store call an operation issues carries overrideAccess: true.
C5_OverrideAccessAlways ==
    op.call.method # "none" => op.call.overrideAccess = TRUE

\* A filtered count is waiting for the store.
C5_Witness ==
    /\ op.pc = "awaitStore"
    /\ op.call.method = "count"
    /\ op.call.where.shape = "field"
    /\ op.call.overrideAccess

\* The ID mode's representation of a scalar: an integer in number mode, a
\* string in text mode.  Read in the code's favour: a string that spells no
\* number cannot be converted, and null and non-scalars are no IDs.
HasModeRepresentation(v) ==
    IF typeof(v) = "string" THEN idType = "text" \/ isNaN(parseInt(v.s))
    ELSE IF typeof(v) = "number" THEN idType = "number"
         ELSE TRUE

\* The names the store knows the primary key and the references by.
IdNames(model) ==
    { k_id } \cup { getPayloadFieldName(model, f) :
                      f \in { g \in DOMAIN ModelFields(model) : IsReference(model, g) } }

ConditionValue(c) ==
    IF "equals" \in DOMAIN c.cond THEN c.cond.equals
    ELSE IF "not_equals" \in DOMAIN c.cond THEN c.cond.not_equals
         ELSE Obj

ConditionsOf(w) ==
    { w.one[i] : i \in 1..Len(w.one) } \cup { w.and[i] : i \in 1..Len(w.and) }
    \cup { w.or[i] : i \in 1..Len(w.or) }

\* C6: every primary-key and reference value handed to the store (the id of
\* a point operation, written data, the value of a where condition) has the
\* representation of the adapter's ID mode.
C6_IdsInModeRepresentation ==
    (op.call.method # "none" /\ HasFields(op.args.model)) =>
        /\ op.call.byId => HasModeRepresentation(op.call.id)
        /\ \A k \in (DOMAIN op.call.data) \cap IdNames(op.args.model) :
              HasModeRepresentation(op.call.data[k])
        /\ \A c \in ConditionsOf(op.call.where) :
              c.field \in IdNames(op.args.model)
                  => HasModeRepresentation(ConditionValue(c))

\* The store call went to the store.
CallIssued == op.pc \in { "awaitStore", "done" } /\ op.call.method # "none"

SingleIdEquality(where) ==
    /\ Len(where) = 1
    /\ where[1].field = << "id" >>
    /\ where[1].operator = "eq"
    /\ where[1].value.t \in { "string", "number" }

\* C7: findOne, update and delete use the point operation exactly when the
\* query is one predicate id = v with v a string or a number, and a filtered
\* query otherwise (with limit 1 for findOne); updateMany and deleteMany
\* always use a filtered query.
C7_PointOrFiltered ==
    CallIssued =>
        /\ op.args.kind \in { "findOne", "update", "delete" } =>
              /\ op.call.byId <=> SingleIdEquality(op.args.where)
              /\ op.call.byId => op.call.where = NoWhere
              /\ ~ op.call.byId =>
                    /\ op.call.where.shape \in { "empty", "field", "groups" }
                    /\ op.call.id = NoId
              /\ op.call.method =
                    IF op.args.kind = "findOne"
                    THEN (IF op.call.byId THEN "findByID" ELSE "find")
                    ELSE op.args.kind
              /\ (op.args.kind = "findOne" /\ ~ op.call.byId) => op.call.limit = Num(1)
        /\ op.args.kind \in { "updateMany", "deleteMany" } =>
              /\ ~ op.call.byId
              /\ op.call.where.shape \in { "empty", "field", "groups" }

\* findOne with id = v and a second predicate went to find with limit 1, and
\* an update with id = v alone went to the point update.
C7_Witness ==
    /\ CallIssued
    /\ \/ /\ op.args.kind = "findOne"
          /\ Len(op.args.where) = 2
          /\ op.args.where[1].field = k_id
          /\ op.call.method = "find"
          /\ op.call.limit = Num(1)
       \/ /\ op.args.kind = "delete"
          /\ Len(op.args.where) = 1
          /\ op.args.where[1].operator = "ne"
          /\ op.args.where[1].field = k_id
          /\ ~ op.call.byId

\* findMany has issued its store call.
FindManyIssued == CallIssued /\ op.args.kind = "findMany"

\* C12: findMany asks for page floor(offset / limit) + 1 of size limit, with
\* limit 100 when none is given and page 1 for an absent or zero offset; so
\* when offset is a multiple of limit the page asked for starts at position
\* offset of the result.
C12_PageOfOffset ==
    FindManyIssued =>
        LET limit == IF op.args.limit.t = "undefined" THEN 100 ELSE op.args.limit.n
            offset == IF op.args.offset.t = "undefined" THEN 0 ELSE op.args.offset.n
        IN  /\ op.call.limit = Num(limit)
            /\ op.call.page = Num(IF offset = 0 THEN 1 ELSE (offset \div limit) + 1)
            /\ offset % limit = 0 =>
                  (op.call.page.n - 1) * op.call.limit.n = offset

\* findMany with offset 200 and no limit asked for page 3 of size 100, and
\* with offset 3 and limit 2 for page 2.
C12_Witness ==
    /\ FindManyIssued
    /\ \/ /\ op.args.offset = Num(200) /\ op.args.limit = Undefined
          /\ op.call.page = Num(3) /\ op.call.limit = Num(100)
       \/ /\ op.args.offset = Num(3) /\ op.args.limit = Num(2)
          /\ op.call.page = Num(2)

\* The positions of the predicates of where that go to the or-list (isOr) or
\* to the and-list, and the place of position i among them.
GroupPositions(where, isOr) ==
    { i \in 1..Len(where) : (where[i].connector = "OR") = isOr }

PlaceIn(positions, i) == Cardinality({ j \in positions : j <= i })

\* The condition a predicate becomes: its field named as inbound translation
\* names the key of a record { field: value }.
TranslatedPredicate(model, p) ==
    [field |-> CHOOSE k \in DOMAIN transformDataForPayload(model, (p.field :> p.value)) : TRUE,
     cond |-> convertOperator(p.operator, p.value)]

GroupIs(model, where, isOr, list) ==
    /\ Len(list) = Cardinality(GroupPositions(where, isOr))
    /\ \A i \in GroupPositions(where, isOr) :
          list[PlaceIn(GroupPositions(where, isOr), i)] = TranslatedPredicate(model, where[i])

\* C13: the filter of a store call is empty for an empty query, one bare
\* field condition for a single predicate, and for two or more predicates the
\* and-list holds the predicates whose connector is not OR and the or-list
\* those whose connector is OR, each once and in input order, with the field
\* named as inbound data keys are.
C13_WhereTranslation ==
    (CallIssued /\ op.call.where # NoWhere) =>
        LET where == IF op.args.hasWhere THEN op.args.where ELSE << >>
            filter == op.call.where
        IN  IF Len(where) = 0
            THEN filter = [shape |-> "empty", one |-> << >>, and |-> << >>, or |-> << >>]
            ELSE IF Len(where) = 1
                 THEN filter = [shape |-> "field",
                                one |-> << TranslatedPredicate(op.args.model, where[1]) >>,
                                and |-> << >>, or |-> << >>]
                 ELSE /\ filter.shape = "groups" /\ filter.one = << >>
                      /\ GroupIs(op.args.model, where, FALSE, filter.and)
                      /\ GroupIs(op.args.model, where, TRUE, filter.or)

\* A query token = 'a' AND, userId = '12' OR, id != 'a' AND became the
\* and-list (token, id) and the or-list (user).
C13_Witness ==
    /\ CallIssued
    /\ Len(op.args.where) = 3
    /\ op.args.where[2].connector = "OR" /\ op.args.where[3].connector = "AND"
    /\ Len(op.call.where.and) = 2 /\ Len(op.call.where.or) = 1
    /\ op.call.where.and[1].field = k_token /\ op.call.where.and[2].field = k_id
    /\ op.call.where.or[1].field = k_user

StoreFailureRaised ==
    /\ op.pc = "done"
    /\ op.answer.kind = "throw"
    /\ op.outcome.status = "rejected"

\* C22: an operation whose store call failed and that rejects has written
\* an error log entry naming its model, whichever of the eight it is.
C22_FailureLogged ==
    StoreFailureRaised =>
        /\ Len(op.logged) >= 1
        /\ op.logged[1].model = op.args.model

\* C25: update and delete by a single id-equality predicate, answered by
\* the store with its not-found error, complete without raising, update
\* with null.
C25_PointNotFoundIsNull ==
    (/\ op.pc = "done"
     /\ op.args.kind \in { "update", "delete" }
     /\ op.call.byId
     /\ op.answer.kind = "throw"
     /\ IsNotFound(op.answer.err)) =>
        /\ op.outcome.status = "fulfilled"
        /\ op.args.kind = "update" => op.outcome.t = "null"

----------------------------------------------------------------------------
(* SpecTranslate: the translator applied to enumerated inputs *)

Models == { m_session, m_sessions, m_audit }

\* Values the auth engine gives for a reference, and a store holds for one.
RefValues == { Str(<< "1", "2" >>), Str(<< "1", "a" >>), Str(<< "a" >>), Num(12), Null }

InboundValues ==
    [k \in { k_userId, k_team_id, k_token, k_activeOrganizationId } |->
        CASE k = k_userId -> RefValues
          [] k = k_team_id -> { Str(<< "1" >>), Num(1) }
          [] k = k_token -> { Str(<< "a" >>), Str(<< "1", "2" >>) }
          [] OTHER -> { Str(<< "1", "2" >>) }]

InboundData == ObjectsOver(DOMAIN InboundValues, InboundValues)

OutboundValues ==
    [k \in { k_id, k_user, k_userId, k_activeOrganizationId, k_customOrgRef,
             k_expiresAt } |->
        CASE k = k_id -> { Str(<< "1", "2" >>), Num(12) }
          [] k = k_user -> { Str(<< "1", "2" >>), Str(<< "a" >>), Num(12), Obj }
          [] k = k_userId -> { Str(<< "1" >>), Num(1) }
          [] k = k_activeOrganizationId -> { Str(<< "1", "2" >>), Str(<< "1", "a" >>) }
          [] k = k_customOrgRef -> { Str(<< "2" >>) }
          [] OTHER -> { IsoText, Null }]

OutboundDocs == ObjectsOver(DOMAIN OutboundValues, OutboundValues)

IdInputs == { Str(s) : s \in Texts } \cup { Num(1), Num(12), Num(120) }

\* The input the translator is about to be applied to.
TrInput(kind, model, in) ==
    [fn |-> "none", kind |-> kind, model |-> model, in |-> in, mid |-> << >>,
     out |-> << >>]

TrInputs ==
    { TrInput("data", model, data) : model \in Models, data \in InboundData }
    \cup { TrInput("doc", model, doc) : model \in Models, doc \in OutboundDocs }
    \cup { TrInput("id", << >>, << v >>) : v \in IdInputs }

InitTranslate ==
    /\ InitAdapter
    /\ lazy = FALSE
    /\ procs = << >>
    /\ op = << >>
    /\ store = << >>
    /\ lk = << >>
    /\ gen = << >>
    /\ plugin = << >>
    /\ tr \in TrInputs

TrInbound ==
    /\ tr.fn = "none" /\ tr.kind = "data"
    /\ tr' = [tr EXCEPT !.fn = "inbound",
                        !.out = transformDataForPayload(tr.model, tr.in)]
    /\ UNCHANGED << configVars, clientVars, procs, op, store, lk, setupVars >>

TrOutbound ==
    /\ tr.fn = "none" /\ tr.kind = "doc"
    /\ tr' = [tr EXCEPT !.fn = "outbound",
                        !.out = transformDataFromPayload(tr.model, tr.in)]
    /\ UNCHANGED << configVars, clientVars, procs, op, store, lk, setupVars >>

\* The store echoes the document it was given, and it is translated back.
TrRoundTrip ==
    /\ tr.fn = "inbound"
    /\ tr' = [tr EXCEPT !.fn = "roundtrip", !.mid = tr.out,
                        !.out = transformDataFromPayload(tr.model, tr.out)]
    /\ UNCHANGED << configVars, clientVars, procs, op, store, lk, setupVars >>

TrConvertId ==
    /\ tr.fn = "none" /\ tr.kind = "id"
    /\ tr' = [tr EXCEPT !.fn = "convertId", !.out = << convertId(tr.in[1]) >>]
    /\ UNCHANGED << configVars, clientVars, procs, op, store, lk, setupVars >>

NextTranslate ==
    \/ TrInbound
    \/ TrOutbound
    \/ TrRoundTrip
    \/ TrConvertId

SpecTranslate == InitTranslate /\ [][NextTranslate]_vars

----------------------------------------------------------------------------
(* Claims checked on SpecTranslate *)

\* C9: a record translated inbound and then, as the store echoes it,
\* outbound holds every key of the original record; in particular the key f of
\* a reference field whose suffix was stripped on the way in is restored.
C9_RoundTripKeepsKeys ==
    tr.fn = "roundtrip" => DOMAIN tr.in \subseteq DOMAIN tr.out

\* The record the ID conversion step of transformDataFromPayload starts from.
BeforeIdConversion ==
    LET given == IF tr.fn = "roundtrip" THEN tr.mid ELSE tr.in
    IN  ConvertDates(tr.model, RestoreReferenceKeys(tr.model, given))

\* Outbound translation ran its ID conversion step (the model has a schema).
IdConversionRan ==
    /\ tr.fn \in { "outbound", "roundtrip" }
    /\ HasFields(tr.model)

\* The fields the claim lets the step convert.
Convertible(k, v) ==
    /\ idType = "number"
    /\ v.t = "string"
    /\ Len(v.s) > 0 /\ \A i \in 1..Len(v.s) : v.s[i] \in DigitChars
    /\ (EndsInIdSuffix(k) \/ k \in idFieldsAllowlistSet)
    /\ k \notin idFieldsBlocklistSet

\* C10: the ID conversion step of outbound translation turns a field's value
\* into the integer it spells exactly when the adapter is in number mode, the
\* value is a string of decimal digits, the field name ends in Id/_id or is
\* allow-listed, and the name is not block-listed; every other value leaves the
\* step as it entered, and no key is added or dropped.
C10_OutboundIdConversion ==
    IdConversionRan =>
        /\ DOMAIN tr.out = DOMAIN BeforeIdConversion
        /\ \A k \in DOMAIN tr.out :
              IF Convertible(k, BeforeIdConversion[k])
              THEN tr.out[k] = Num(DecimalValue(BeforeIdConversion[k].s))
              ELSE tr.out[k] = BeforeIdConversion[k]

\* In number mode with customOrgRef on both lists and activeOrganizationId
\* block-listed: the restored userId '12' came out as 12, while
\* activeOrganizationId '12' and customOrgRef '2' stayed strings.
C10_Witness ==
    /\ tr.fn = "outbound"
    /\ tr.model = m_session
    /\ idType = "number"
    /\ k_customOrgRef \in idFieldsAllowlistSet
    /\ idFieldsBlocklistSet = { k_activeOrganizationId, k_customOrgRef }
    /\ In(k_user, tr.in) /\ tr.in[k_user] = Str(<< "1", "2" >>)
    /\ In(k_userId, tr.out) /\ tr.out[k_userId] = Num(12)
    /\ In(k_activeOrganizationId, tr.out)
    /\ tr.out[k_activeOrganizationId] = Str(<< "1", "2" >>)
    /\ In(k_customOrgRef, tr.out) /\ tr.out[k_customOrgRef] = Str(<< "2" >>)

\* C11: ID coercion in number mode is idempotent: an integer comes back as
\* it is, the result coerced again does not change, and a string that is not
\* made only of digits comes back unchanged.
C11_IdCoercionIdempotent ==
    (idType = "number" /\ tr.fn = "convertId") =>
        LET id == tr.in[1]
            coerced == tr.out[1]
        IN  /\ typeof(id) = "number" => coerced = id
            /\ convertId(coerced) = coerced
            /\ (typeof(id) = "string" /\ ~ AllDigits(id.s)) => coerced = id

----------------------------------------------------------------------------
(* SpecStore: findOne and findMany against one and the same collection *)

\* An ID as the collection's ID column holds it: a serial number, or a text.
StoredId(n) == IF idType = "number" THEN Num(n) ELSE Str(String(n))

SessionDoc(n) ==
    (k_id :> StoredId(n)) @@ (k_user :> StoredId(2)) @@ (k_token :> TextA)

\* Contents of the sessions collection, in the order find lists them.
Collections ==
    { << >>, << SessionDoc(1) >>, << SessionDoc(12), SessionDoc(1) >> }

\* The value the store compares with a stored ID.  Whether the store casts a
\* queried value to the type of the ID column (Number(text), String(number))
\* or compares it as given is the store's affair: both are possible.
QueryValue(v) ==
    IF ~ store.coerces THEN v
    ELSE IF idType = "number" /\ typeof(v) = "string"
         THEN (IF AllDigits(v.s) THEN Num(DecimalValue(v.s)) ELSE NaN)
         ELSE IF idType = "text" /\ typeof(v) = "number"
              THEN Str(String(v.n))
              ELSE v

FirstN(s, n) == IF Len(s) <= n THEN s ELSE SubSeq(s, 1, n)

\* payload.find with one condition { field: { equals: v } } and a limit.
StoreFind(c) ==
    LET cond == c.where.one[1]
        matching == SelectSeq(store.docs,
                        LAMBDA d : /\ In(cond.field, d)
                                   /\ d[cond.field] = QueryValue(cond.cond.equals))
    IN  DocsAnswer(FirstN(matching, c.limit.n))

\* payload.findByID: the document with the ID, or the NotFound error.
StoreFindByID(c) ==
    LET matching == SelectSeq(store.docs, LAMBDA d : d[k_id] = QueryValue(c.id))
    IN  IF Len(matching) = 0 THEN Throws(ApiError(NotFoundStatus))
        ELSE DocAnswer(matching[1])

StoreAnswer(c) == IF c.byId THEN StoreFindByID(c) ELSE StoreFind(c)

\* The two lookups of the primary key v.
LookupArgs(kind, v) ==
    Args(kind, m_session, TRUE, << P(k_id, "eq", v, "AND") >>, EmptyObject,
         IF kind = "findMany" THEN Num(1) ELSE Undefined, Undefined, NoSort, FALSE)

InitStore ==
    /\ InitAdapter
    /\ lazy = FALSE
    /\ procs = << >>
    /\ op = << >>
    /\ tr = << >>
    /\ store \in [docs : Collections, coerces : BOOLEAN]
    /\ lk \in [v : IdInputs, one : { NoOutcome }, many : { NoOutcome }]
    /\ gen = << >>
    /\ plugin = << >>

\* adapter.findOne({ model: 'session', where: [{ field: 'id', value: v }] })
FindOneById ==
    /\ lk.one = NoOutcome
    /\ LET a == LookupArgs("findOne", lk.v)
           c == IssuedCall(a)
       IN  lk' = [lk EXCEPT !.one = Outcome(a, c, StoreAnswer(c))]
    /\ UNCHANGED << configVars, clientVars, procs, op, tr, store, setupVars >>

\* adapter.findMany({ model: 'session', where: [the same], limit: 1 })
FindManyLimitOne ==
    /\ lk.many = NoOutcome
    /\ LET a == LookupArgs("findMany", lk.v)
           c == IssuedCall(a)
       IN  lk' = [lk EXCEPT !.many = Outcome(a, c, StoreAnswer(c))]
    /\ UNCHANGED << configVars, clientVars, procs, op, tr, store, setupVars >>

NextStore ==
    \/ FindOneById
    \/ FindManyLimitOne

SpecStore == InitStore /\ [][NextStore]_vars

\* C8: against the same collection, findOne with the one predicate id = v
\* returns the first record of findMany with that predicate and limit 1, and
\* null exactly when that findMany returns no record.
C8_FindOneIsFindManyLimitOne ==
    (lk.one # NoOutcome /\ lk.many # NoOutcome) =>
        /\ lk.many.t = "array"
        /\ IF Len(lk.many.list) = 0
           THEN lk.one = ReturnsNull
           ELSE lk.one = ReturnsObject(lk.many.list[1])

----------------------------------------------------------------------------
(* SpecMutate: update and delete against a collection with several documents *)

\* The documents a store call addresses: the one with the ID, or every
\* document its where matches ({} matches all).
Addressed(c, d) ==
    IF c.byId THEN d[k_id] = QueryValue(c.id)
    ELSE IF c.where.shape = "empty" THEN TRUE
         ELSE LET cond == c.where.one[1]
              IN  /\ In(cond.field, d)
                  /\ d[cond.field] = QueryValue(cond.cond.equals)

\* payload.update: by ID it changes the document or throws NotFound; with a
\* where and no limit it changes every matching document and lists them.
StoreUpdate(c) ==
    LET changed == [i \in 1..Len(store.docs) |->
                       IF Addressed(c, store.docs[i]) THEN Spread(store.docs[i], c.data)
                       ELSE store.docs[i]]
        hit == SelectSeq(changed, LAMBDA d : Addressed(c, d))
        found == SelectSeq(store.docs, LAMBDA d : Addressed(c, d))
    IN  IF c.byId /\ Len(found) = 0
        THEN [docs |-> store.docs, answer |-> Throws(ApiError(NotFoundStatus))]
        ELSE [docs |-> changed,
              answer |-> IF c.byId THEN DocAnswer(Spread(found[1], c.data))
                         ELSE DocsAnswer([i \in 1..Len(found) |-> Spread(found[i], c.data)])]

\* payload.delete: by ID it removes the document or throws NotFound; with a
\* where it removes every matching document and lists them.
StoreDelete(c) ==
    LET found == SelectSeq(store.docs, LAMBDA d : Addressed(c, d))
    IN  IF c.byId /\ Len(found) = 0
        THEN [docs |-> store.docs, answer |-> Throws(ApiError(NotFoundStatus))]
        ELSE [docs |-> SelectSeq(store.docs, LAMBDA d : ~ Addressed(c, d)),
              answer |-> IF c.byId THEN DocAnswer(found[1]) ELSE DocsAnswer(found)]

MutateWheres ==
    { << P(k_id, "eq", Str(<< "1" >>), "AND") >>,
      << P(k_id, "eq", Num(12), "AND") >>,
      << P(k_userId, "eq", Str(<< "2" >>), "AND") >>,
      << P(k_token, "eq", TextA, "AND") >>,
      << P(k_token, "eq", Text12, "AND") >> }

InitMutate ==
    /\ InitAdapter
    /\ lazy = FALSE
    /\ procs = << >>
    /\ op = << >>
    /\ tr = << >>
    /\ store \in [docs : Collections, coerces : BOOLEAN, before : { << >> },
                  last : { NoArgs }, outcome : { NoOutcome }]
    /\ lk = << >>
    /\ gen = << >>
    /\ plugin = << >>

\* adapter.update({ model: 'session', where, update: { token: '12' } })
Update(where) ==
    /\ LET a == Args("update", m_session, TRUE, where, (k_token :> Text12), Undefined,
                     Undefined, NoSort, FALSE)
           c == IssuedCall(a)
           s == StoreUpdate(c)
       IN  store' = [store EXCEPT !.docs = s.docs, !.before = store.docs, !.last = a,
                                  !.outcome = Outcome(a, c, s.answer)]
    /\ UNCHANGED << configVars, clientVars, procs, op, tr, lk, setupVars >>

\* adapter.delete({ model: 'session', where })
Delete(where) ==
    /\ LET a == Args("delete", m_session, TRUE, where, EmptyObject, Undefined,
                     Undefined, NoSort, FALSE)
           c == IssuedCall(a)
           s == StoreDelete(c)
       IN  store' = [store EXCEPT !.docs = s.docs, !.before = store.docs, !.last = a,
                                  !.outcome = Outcome(a, c, s.answer)]
    /\ UNCHANGED << configVars, clientVars, procs, op, tr, lk, setupVars >>

NextMutate ==
    \/ \E where \in MutateWheres : Update(where)
    \/ \E where \in MutateWheres : Delete(where)

SpecMutate == InitMutate /\ [][NextMutate]_vars

\* C27: one call of update or delete changes or removes at most one
\* document of the collection, with an id predicate and with a filter.
C27_AtMostOneDocument ==
    store.last.kind \in { "update", "delete" } =>
        /\ Len(store.before) - Len(store.docs) <= 1
        /\ Len(store.before) = Len(store.docs) =>
               Cardinality({ i \in 1..Len(store.docs) : store.docs[i] # store.before[i] }) <= 1

----------------------------------------------------------------------------
(* SpecConstruct: the adapter factory is called with the auth options, and
   the adapter it returns is used *)

NoName == << >>

\* The models whose options carry a modelName, in the order they are checked.
coreModels == << << "user" >>, << "session" >>, << "account" >>, << "verification" >> >>

\* A faulty variant: text unless generateId is 'serial'.
detectIdTypeTextUnlessSerial(generateId) ==
    IF generateId # "serial" THEN "text" ELSE "number"

\* detectIdType(options), on options.advanced?.database?.generateId
detectIdType(generateId) ==
    IF generateId # "undefined" /\ generateId # "serial" THEN "text" ELSE "number"

\* A faulty variant: a warning for every modelName given.
PluralWarningsForAll(modelName) ==
    LET named == SelectSeq(coreModels, LAMBDA m : modelName[m] # NoName)
    IN  [i \in 1..Len(named) |->
            [about |-> "modelName", model |-> named[i], mentions |-> modelName[named[i]]]]

\* The loop over coreModels: console.warn for a modelName that ends with 's'.
PluralWarnings(modelName) ==
    LET plural == SelectSeq(coreModels,
                      LAMBDA m : modelName[m] # NoName /\ EndsWithS(modelName[m]))
    IN  [i \in 1..Len(plural) |->
            [about |-> "modelName", model |-> plural[i], mentions |-> modelName[plural[i]]]]

\* The warning about generateId that precedes the loop.
GenerateIdWarnings(resolved, generateId) ==
    IF resolved = "number" /\ generateId # "undefined" /\ generateId # "serial"
    THEN << [about |-> "generateId", model |-> NoName, mentions |-> NoName] >>
    ELSE << >>

ModelNameOptions ==
    { [m \in { coreModels[i] : i \in 1..Len(coreModels) } |->
          CASE m = << "user" >> -> user
            [] m = << "session" >> -> session
            [] m = << "account" >> -> NoName
            [] OTHER -> verification] :
        user \in { NoName, << "member" >>, << "user", "s" >> },
        session \in { NoName, << "session", "s" >> },
        verification \in { NoName, << "item", "s" >>, << "user", "s" >> } }

Constructions ==
    [adapterConfig : [idType : { "undefined", "number", "text" }],
     options : [generateId : { "undefined", "serial", "uuid", "function" },
                modelName : ModelNameOptions],
     constructed : { FALSE }, warnings : { << >> }]

\* One call of each operation.
OneOfEach ==
    { Args("create", m_session, TRUE, << >>, (k_userId :> Text12), Undefined,
           Undefined, NoSort, FALSE),
      Args("update", m_session, TRUE, << P(k_id, "eq", Text12, "AND") >>,
           (k_userId :> Text12), Undefined, Undefined, NoSort, FALSE),
      Args("updateMany", m_session, TRUE, << P(k_userId, "eq", Text12, "AND") >>,
           (k_token :> TextA), Undefined, Undefined, NoSort, FALSE) }
    \cup { Args(k, m_session, TRUE, << P(k_id, "eq", Text12, "AND") >>, EmptyObject,
                Undefined, Undefined, NoSort, FALSE) :
             k \in { "findOne", "findMany", "delete", "deleteMany", "count" } }

InitConstruct ==
    /\ idType = "unresolved"
    /\ idFieldsAllowlistSet = {}
    /\ idFieldsBlocklistSet = {}
    /\ schema = SchemaWith(k_userId)
    /\ lazy = FALSE
    /\ resolvedPayload = NoHandle
    /\ resolvePromise = 0
    /\ promises = << >>
    /\ clientCalls = 0
    /\ op = IdleOp
    /\ procs = << >>
    /\ tr = << >>
    /\ store = << >>
    /\ lk = << >>
    /\ gen \in Constructions
    /\ plugin = << >>

\* factory(options): the ID mode is fixed and the warnings are logged.
Construct ==
    /\ ~ gen.constructed
    /\ idType' = IF gen.adapterConfig.idType # "undefined"
                 THEN gen.adapterConfig.idType
                 ELSE detectIdType(gen.options.generateId)
    /\ gen' = [gen EXCEPT !.constructed = TRUE,
                          !.warnings =
                              GenerateIdWarnings(idType', gen.options.generateId)
                              \o PluralWarnings(gen.options.modelName)]
    /\ UNCHANGED << idFieldsAllowlistSet, idFieldsBlocklistSet, schema, lazy,
                    clientVars, procs, op, tr, store, lk, plugin >>

NextConstruct ==
    \/ Construct
    \/ gen.constructed /\ \E a \in OneOfEach : Call(a)
    \/ \E i \in 1..Len(promises), ok \in BOOLEAN : ClientSettles(i, ok)
    \/ Resume
    \/ \E r \in AllAnswers : StoreAnswers(r)
    \/ Return

SpecConstruct == InitConstruct /\ [][NextConstruct]_vars

\* The warnings logged about the modelName of model m.
WarningsAbout(m) ==
    { i \in 1..Len(gen.warnings) :
        gen.warnings[i].about = "modelName" /\ gen.warnings[i].model = m }

\* An operation of the constructed adapter has run to its end.
AdapterUsed == gen.constructed /\ op.pc = "done" /\ op.outcome.status = "fulfilled"

\* C14: construction logs, for each model whose modelName ends in 's', one
\* warning and it mentions that modelName; for a modelName that does not end in
\* 's', or none, it logs no such warning; and construction always completes.
C14_PluralWarning ==
    gen.constructed =>
        \A i \in 1..Len(coreModels) :
            LET m == coreModels[i]
                name == gen.options.modelName[m]
            IN  IF name # NoName /\ name[Len(name)] = "s"
                THEN /\ Cardinality(WarningsAbout(m)) = 1
                     /\ \A w \in WarningsAbout(m) : gen.warnings[w].mentions = name
                ELSE WarningsAbout(m) = {}

\* Constructed with user.modelName 'users' and session.modelName unset: one
\* warning about 'users', none about session, and the adapter served a call.
C14_Witness ==
    /\ AdapterUsed
    /\ gen.options.modelName[<< "user" >>] = << "user", "s" >>
    /\ gen.options.modelName[<< "session" >>] = NoName
    /\ Cardinality(WarningsAbout(<< "user" >>)) = 1
    /\ WarningsAbout(<< "session" >>) = {}

----------------------------------------------------------------------------
(* The collections plugin: betterAuthCollections and the first-user hook *)

\* Simple pluralization (add 's' suffix)
pluralize(name) == IF EndsWithS(name) THEN name ELSE Append(name, "s")

mapFieldType(type, fieldName, hasReferences) ==
    IF hasReferences THEN "relationship"
    ELSE CASE type = "boolean" -> "checkbox"
           [] type = "number" -> "number"
           [] type = "date" -> "date"
           [] type = "string" -> (IF fieldName = << "email" >> THEN "email" ELSE "text")
           [] type \in { "json", "object", "string[]", "array" } -> "json"
           [] OTHER -> "text"

\* The fields of a table the plugin looks at, in order.
SchemaFields(table) ==
    SelectSeq(table.fields,
              LAMBDA f : f.key \notin { << "id" >>, << "createdAt" >>, << "updatedAt" >> })

\* The name of the Payload field for a schema field.
PayloadFieldNameOf(f) ==
    LET fieldName == IF f.fieldName = NoName THEN f.key ELSE f.fieldName
    IN  IF f.references THEN StripIdSuffix(fieldName) ELSE fieldName

\* The field pushed for a schema field.
GeneratedField(f) ==
    [name |-> PayloadFieldNameOf(f), type |-> mapFieldType(f.type, f.key, f.references),
     sub |-> {}, generated |-> TRUE, from |-> f.key]

getExistingFieldNames(fields) ==
    { fields[i].name : i \in { j \in 1..Len(fields) : fields[j].name # NoName } }

augmentCollectionWithMissingFields(collection, table) ==
    LET missing == SelectSeq(SchemaFields(table),
                       LAMBDA f : PayloadFieldNameOf(f)
                                      \notin getExistingFieldNames(collection.fields))
        missingFields == [i \in 1..Len(missing) |-> GeneratedField(missing[i])]
    IN  IF Len(missingFields) = 0 THEN collection
        ELSE [collection EXCEPT !.fields = collection.fields \o missingFields]

\* read and delete for admins, create and update for nobody (() => false).
defaultAccess ==
    [operation \in { "read", "create", "update", "delete" } |->
        IF operation \in { "create", "update" } THEN "deny" ELSE "isAdmin"]

\* A faulty variant: the custom rules laid over the default ones.
CollectionAccessMerged(customAccess) ==
    IF customAccess.given THEN Spread(defaultAccess, customAccess.rules)
    ELSE defaultAccess

\* customAccess ?? defaultAccess
CollectionAccess(customAccess) ==
    IF customAccess.given THEN customAccess.rules ELSE defaultAccess

generateCollection(modelKey, table, usePlural, customAccess) ==
    LET baseName == IF table.modelName = NoName THEN modelKey ELSE table.modelName
    IN  [slug |-> IF usePlural THEN pluralize(baseName) ELSE baseName,
         fields |-> [i \in 1..Len(SchemaFields(table)) |->
                        GeneratedField(SchemaFields(table)[i])],
         access |-> CollectionAccess(customAccess),
         hooks |-> << >>,
         generatedFrom |-> modelKey]

\* beforeChange: [hook, ...existing]
injectFirstUserAdminHook(collection) ==
    [collection EXCEPT !.hooks = << "firstUserAdmin" >> \o collection.hooks]

\* The loop over Object.entries(tables): st holds existingCollections,
\* augmentedCollections and generatedCollections.
\* One turn of the loop over the models; the state holds the Map
\* existingCollections and the two lists the loop pushes to.
\* A faulty variant: skipCollections is consulted before the host collection.
LoopTurnSkipFirst(o, modelKey, table, st) ==
    LET baseName == IF table.modelName = NoName THEN modelKey ELSE table.modelName
        slug == IF o.usePlural THEN pluralize(baseName) ELSE baseName
        hooked(c) == IF modelKey = << "user" >> /\ o.firstUserAdmin
                     THEN injectFirstUserAdminHook(c) ELSE c
    IN  IF modelKey \in o.skipCollections THEN st
        ELSE IF slug \in DOMAIN st.existing
             THEN LET augmented ==
                          hooked(augmentCollectionWithMissingFields(st.existing[slug], table))
                  IN  IF augmented # st.existing[slug]
                      THEN [st EXCEPT !.augmented = Append(@, augmented),
                                      !.existing = [@ EXCEPT ![slug] = augmented]]
                      ELSE st
             ELSE [st EXCEPT !.generated =
                       Append(@, hooked(generateCollection(modelKey, table,
                                                           o.usePlural, o.access)))]

LoopTurn(o, modelKey, table, st) ==
    LET baseName == IF table.modelName = NoName THEN modelKey ELSE table.modelName
        slug == IF o.usePlural THEN pluralize(baseName) ELSE baseName
        hooked(c) == IF modelKey = << "user" >> /\ o.firstUserAdmin
                     THEN injectFirstUserAdminHook(c) ELSE c
    IN  IF slug \in DOMAIN st.existing
        THEN LET augmented ==
                     hooked(augmentCollectionWithMissingFields(st.existing[slug], table))
             IN  IF augmented # st.existing[slug]
                 THEN [st EXCEPT !.augmented = Append(@, augmented),
                                 !.existing = [@ EXCEPT ![slug] = augmented]]
                 ELSE st
        ELSE IF modelKey \in o.skipCollections THEN st
             ELSE [st EXCEPT !.generated =
                       Append(@, hooked(generateCollection(modelKey, table,
                                                           o.usePlural, o.access)))]

RECURSIVE CollectionsLoop(_, _, _)
CollectionsLoop(o, tables, st) ==
    IF tables = << >> THEN st
    ELSE CollectionsLoop(o, Tail(tables),
                         LoopTurn(o, Head(tables).key, Head(tables).table, st))

\* The plugin applied to the incoming collections.
betterAuthCollections(o, incoming) ==
    LET slugs == { incoming[i].slug : i \in 1..Len(incoming) }
        lastWith(s) == CHOOSE i \in 1..Len(incoming) :
                          /\ incoming[i].slug = s
                          /\ \A j \in 1..Len(incoming) : incoming[j].slug = s => j <= i
        st == CollectionsLoop(o, o.tables,
                  [existing |-> [s \in slugs |-> incoming[lastWith(s)]],
                   augmented |-> << >>, generated |-> << >>])
        found(s) == { i \in 1..Len(st.augmented) : st.augmented[i].slug = s }
        first(s) == CHOOSE i \in found(s) : \A j \in found(s) : i <= j
        finalCollections ==
            [i \in 1..Len(incoming) |->
                IF found(incoming[i].slug) # {}
                THEN st.augmented[first(incoming[i].slug)]
                ELSE incoming[i]]
    IN  finalCollections \o st.generated

\* value ?? fallback
OrElse(value, fallback) ==
    IF value.t \in { "undefined", "null" } THEN fallback ELSE value

\* A faulty variant: after the first user every create gets the default role.
createFirstUserAdminHookNoKeep(options, operation, data, count) ==
    LET adminRole == OrElse(options.adminRole, Str(<< "admin" >>))
        defaultRole == OrElse(options.defaultRole, Str(<< "user" >>))
        roleField == IF options.roleField = NoName THEN k_role ELSE options.roleField
    IN  IF operation # "create" THEN data
        ELSE IF count.kind # "throw" /\ count.n = 0
             THEN Spread(data, (roleField :> adminRole))
             ELSE Spread(data, (roleField :> defaultRole))

\* The beforeChange hook createFirstUserAdminHook returns, applied to a
\* change; count is what req.payload.count answers.
createFirstUserAdminHook(options, operation, data, count) ==
    LET adminRole == OrElse(options.adminRole, Str(<< "admin" >>))
        defaultRole == OrElse(options.defaultRole, Str(<< "user" >>))
        roleField == IF options.roleField = NoName THEN k_role ELSE options.roleField
        supplied == IF In(roleField, data) THEN data[roleField] ELSE Undefined
    IN  IF operation # "create" THEN data
        ELSE IF count.kind # "throw" /\ count.n = 0
             THEN Spread(data, (roleField :> adminRole))
             ELSE Spread(data, (roleField :> OrElse(supplied, defaultRole)))

----------------------------------------------------------------------------
(* SpecCollections: the plugin and the hook applied to enumerated inputs *)

TableField(key, type, references) ==
    [key |-> key, fieldName |-> NoName, type |-> type, references |-> references]

HostField(name, type, sub) ==
    [name |-> name, type |-> type, sub |-> sub, generated |-> FALSE, from |-> NoName]

HostCollection(slug, fields) ==
    [slug |-> slug, fields |-> fields, access |-> ("read" :> "custom"),
     hooks |-> << >>, generatedFrom |-> NoName]

k_email == << "email" >>

userTable ==
    [modelName |-> << "user" >>,
     fields |-> << TableField(k_id, "string", FALSE), TableField(k_email, "string", FALSE),
                   TableField(k_role, "string", FALSE),
                   TableField(<< "createdAt" >>, "date", FALSE) >>]

sessionTable(modelName) ==
    [modelName |-> modelName,
     fields |-> << TableField(k_token, "string", FALSE),
                   TableField(k_userId, "string", TRUE) >>]

memberTable ==
    [modelName |-> << "member" >>,
     fields |-> << TableField(k_team_id, "string", TRUE),
                   TableField(<< "banned" >>, "boolean", FALSE) >>]

TableLists ==
    { << [key |-> << "user" >>, table |-> userTable],
         [key |-> m_session, table |-> sessionTable(m_session)] >>,
      << [key |-> << "user" >>, table |-> userTable],
         [key |-> m_session, table |-> sessionTable(NoName)],
         [key |-> << "member" >>, table |-> memberTable] >>,
      << [key |-> m_session, table |-> sessionTable(m_session)] >> }

IncomingLists ==
    { << >>,
      << HostCollection(<< "post", "s" >>, << HostField(<< "title" >>, "text", {}) >>),
         HostCollection(<< "user", "s" >>,
                        << HostField(k_email, "text", {}),
                           HostField(<< "name" >>, "text", {}) >>) >>,
      << HostCollection(<< "user", "s" >>,
                        << HostField(k_email, "text", {}),
                           HostField(NoName, "row", { k_role }) >>),
         HostCollection(<< "post", "s" >>, << HostField(<< "title" >>, "text", {}) >>) >>,
      << HostCollection(m_sessions,
                        << HostField(k_user, "relationship", {}),
                           HostField(k_token, "text", {}) >>) >> }

AccessOptions ==
    { [given |-> FALSE, rules |-> << >>],
      [given |-> TRUE, rules |-> ("read" :> "custom")],
      [given |-> TRUE,
       rules |-> [operation \in { "read", "create", "update", "delete" } |-> "custom"]] }

PluginInputs ==
    [kind : { "plugin" }, done : { FALSE }, out : { << >> },
     incoming : IncomingLists,
     options : [tables : TableLists, usePlural : BOOLEAN, firstUserAdmin : BOOLEAN,
                skipCollections : { { << "user" >> }, {}, { << "user" >>, m_session } },
                access : AccessOptions]]

HookInputs ==
    [kind : { "hook" }, done : { FALSE }, out : { << >> },
     operation : { "create", "update" },
     options : { [adminRole |-> Undefined, defaultRole |-> Undefined, roleField |-> NoName],
                 [adminRole |-> Str(<< "owner" >>), defaultRole |-> Str(<< "member" >>),
                  roleField |-> << "level" >>] },
     data : { (k_email :> TextA),
              (k_email :> TextA) @@ (k_role :> Str(<< "editor" >>)),
              (k_email :> TextA) @@ (k_role :> Null),
              (k_email :> TextA) @@ (<< "level" >> :> Str(<< "editor" >>)) },
     count : { CountAnswer(0), CountAnswer(2), Throws(ApiError(500)) }]

InitCollections ==
    /\ InitAdapter
    /\ idType = "number"
    /\ idFieldsAllowlistSet = {}
    /\ idFieldsBlocklistSet = {}
    /\ schema = SchemaWith(k_userId)
    /\ lazy = FALSE
    /\ procs = << >>
    /\ op = << >>
    /\ tr = << >>
    /\ store = << >>
    /\ lk = << >>
    /\ gen \in PluginInputs \cup HookInputs
    /\ plugin = << >>

\* The plugin function returned by betterAuthCollections(options) is applied
\* to the incoming config.
RunPlugin ==
    /\ gen.kind = "plugin" /\ ~ gen.done
    /\ gen' = [gen EXCEPT !.done = TRUE,
                          !.out = betterAuthCollections(gen.options, gen.incoming)]
    /\ UNCHANGED << configVars, clientVars, procs, op, tr, store, lk, plugin >>

\* Payload runs the beforeChange hook on a change of the users collection.
RunHook ==
    /\ gen.kind = "hook" /\ ~ gen.done
    /\ gen' = [gen EXCEPT !.done = TRUE,
                          !.out = createFirstUserAdminHook(gen.options, gen.operation,
                                                           gen.data, gen.count)]
    /\ UNCHANGED << configVars, clientVars, procs, op, tr, store, lk, plugin >>

NextCollections ==
    \/ RunPlugin
    \/ RunHook

SpecCollections == InitCollections /\ [][NextCollections]_vars

PluginRan == gen.kind = "plugin" /\ gen.done

HookRan == gen.kind = "hook" /\ gen.done

\* The slug the plugin computes for the k-th model of the schema.
SlugOfModel(k) ==
    LET m == gen.options.tables[k]
        baseName == IF m.table.modelName = NoName THEN m.key ELSE m.table.modelName
    IN  IF gen.options.usePlural THEN pluralize(baseName) ELSE baseName

\* The names of the fields a collection declares: its named fields and the
\* named fields laid out inside its unnamed containers.
DeclaredNames(fields) ==
    { fields[i].name : i \in { j \in 1..Len(fields) : fields[j].name # NoName } }
        \cup UNION { fields[i].sub : i \in 1..Len(fields) }

\* C16: the output collection at the position of an incoming collection
\* holds that collection's fields unchanged and in order, followed only by
\* generated fields whose names the incoming collection did not declare.
C16_AugmentationKeepsHostFields ==
    PluginRan =>
        \A i \in 1..Len(gen.incoming) :
            LET host == gen.incoming[i].fields
                out == gen.out[i].fields
            IN  /\ Len(out) >= Len(host)
                /\ SubSeq(out, 1, Len(host)) = host
                /\ \A j \in (Len(host) + 1)..Len(out) :
                       /\ out[j].generated
                       /\ out[j].name \notin DeclaredNames(host)

RoleFieldOf(options) == IF options.roleField = NoName THEN k_role ELSE options.roleField

SuppliedRole(options, data) ==
    IF In(RoleFieldOf(options), data) /\ data[RoleFieldOf(options)].t \notin { "null", "undefined" }
    THEN data[RoleFieldOf(options)]
    ELSE IF options.defaultRole = Undefined THEN Str(<< "user" >>) ELSE options.defaultRole

\* C17: on a create the hook sets the role field to the admin role when the
\* count is 0, and to the supplied role, or failing that the default role,
\* when the count is positive or the count call throws; every other key of
\* the data is kept, and on another operation the data is returned as is.
C17_FirstUserHook ==
    HookRan =>
        LET roleField == RoleFieldOf(gen.options)
            adminRole == IF gen.options.adminRole = Undefined THEN Str(<< "admin" >>)
                         ELSE gen.options.adminRole
        IN  IF gen.operation # "create" THEN gen.out = gen.data
            ELSE /\ DOMAIN gen.out = DOMAIN gen.data \cup { roleField }
                 /\ \A k \in DOMAIN gen.data \ { roleField } : gen.out[k] = gen.data[k]
                 /\ gen.out[roleField] =
                        IF gen.count.kind # "throw" /\ gen.count.n = 0 THEN adminRole
                        ELSE SuppliedRole(gen.options, gen.data)

\* A create after the first user, with a role supplied, keeps that role, also when the count threw.
C17_Witness ==
    /\ HookRan
    /\ gen.operation = "create"
    /\ gen.count.kind = "throw"
    /\ In(RoleFieldOf(gen.options), gen.data)
    /\ gen.data[RoleFieldOf(gen.options)] = Str(<< "editor" >>)
    /\ gen.out[RoleFieldOf(gen.options)] = Str(<< "editor" >>)

GeneratedPositions == { j \in 1..Len(gen.out) : gen.out[j].generatedFrom # NoName }

----------------------------------------------------------------------------
(* SpecPlugin: onInit of the plugin, resetAuthInstance and module reloads *)

Payloads == 1..NPayloads

\* authInstance = null, and a payload without the betterAuth property.
NoAuth == 0

InitPlugin ==
    /\ InitAdapter
    /\ idType = "number"
    /\ idFieldsAllowlistSet = {}
    /\ idFieldsBlocklistSet = {}
    /\ schema = SchemaWith(k_userId)
    /\ lazy = FALSE
    /\ procs = << >>
    /\ op = << >>
    /\ tr = << >>
    /\ store = << >>
    /\ lk = << >>
    /\ gen = << >>
    /\ plugin = [authInstance |-> NoAuth,
                 betterAuth |-> [p \in Payloads |-> NoAuth],
                 created |-> 0,
                 threw |-> 0,
                 sinceReset |-> 0,
                 last |-> [step |-> "none", payload |-> 0, outcome |-> "none"]]

\* onInit(payload); throws is whether createAuth, if called, throws.  The
\* instances createAuth returns are numbered in the order of their creation.
OnInit(payload, throws) ==
    /\ IF plugin.betterAuth[payload] # NoAuth
       THEN plugin' = [plugin EXCEPT !.last = [step |-> "onInit", payload |-> payload,
                                               outcome |-> "returned"]]
       ELSE IF plugin.authInstance # NoAuth
            THEN plugin' = [plugin EXCEPT !.betterAuth[payload] = plugin.authInstance,
                                          !.last = [step |-> "onInit", payload |-> payload,
                                                    outcome |-> "reused"]]
            ELSE /\ plugin.created + plugin.threw < MaxCreateAuth
                 /\ IF throws
                    THEN plugin' = [plugin EXCEPT !.threw = @ + 1,
                                                  !.last = [step |-> "onInit",
                                                            payload |-> payload,
                                                            outcome |-> "threw"]]
                    ELSE plugin' = [plugin EXCEPT !.authInstance = plugin.created + 1,
                                                  !.created = @ + 1,
                                                  !.sinceReset = @ + 1,
                                                  !.betterAuth[payload] = plugin.created + 1,
                                                  !.last = [step |-> "onInit",
                                                            payload |-> payload,
                                                            outcome |-> "created"]]
    /\ UNCHANGED << configVars, clientVars, procs, op, tr, store, lk, gen >>

resetAuthInstance ==
    /\ plugin' = [plugin EXCEPT !.authInstance = NoAuth,
                                !.sinceReset = 0,
                                !.last = [step |-> "reset", payload |-> 0, outcome |-> "none"]]
    /\ UNCHANGED << configVars, clientVars, procs, op, tr, store, lk, gen >>

\* An in-process module reload.  Whether the plugin's own module is among
\* the modules evaluated again depends on the bundler and on what changed;
\* when it is, its top-level let authInstance starts at null again.  The
\* payload objects live outside the module and keep their property.
ReloadModule(evaluatedAgain) ==
    /\ plugin' = [plugin EXCEPT !.authInstance = IF evaluatedAgain THEN NoAuth ELSE @,
                                !.last = [step |-> "reload", payload |-> 0,
                                          outcome |-> "none"]]
    /\ UNCHANGED << configVars, clientVars, procs, op, tr, store, lk, gen >>

\* payload.betterAuth = instance, on a payload that has the property: the
\* property is not writable, so the value stays.
AssignBetterAuth(payload) ==
    /\ plugin.betterAuth[payload] # NoAuth
    /\ plugin' = [plugin EXCEPT !.last = [step |-> "assign", payload |-> payload,
                                          outcome |-> "none"]]
    /\ UNCHANGED << configVars, clientVars, procs, op, tr, store, lk, gen >>

NextPlugin ==
    \/ \E payload \in Payloads : \E throws \in BOOLEAN : OnInit(payload, throws)
    \/ resetAuthInstance
    \/ \E evaluatedAgain \in BOOLEAN : ReloadModule(evaluatedAgain)
    \/ \E payload \in Payloads : AssignBetterAuth(payload)

SpecPlugin == InitPlugin /\ [][NextPlugin]_vars

\* C20: at most one instance is constructed between two calls of
\* resetAuthInstance, module reloads included; a payload that carries
\* betterAuth keeps its value and an onInit on it constructs nothing; an
\* onInit on another payload leaves it carrying the instance the module
\* holds; a createAuth that throws leaves no instance stored.
C20_AuthSingleton ==
    [][ /\ plugin'.sinceReset <= 1
        /\ \A p \in Payloads :
               plugin.betterAuth[p] # NoAuth =>
                   /\ plugin'.betterAuth[p] = plugin.betterAuth[p]
                   /\ (plugin'.last.step = "onInit" /\ plugin'.last.payload = p) =>
                          plugin'.created = plugin.created
        /\ (plugin'.last.step = "onInit" /\ plugin'.last.outcome \in { "reused", "created" }) =>
               /\ plugin'.authInstance # NoAuth
               /\ plugin'.betterAuth[plugin'.last.payload] = plugin'.authInstance
        /\ (plugin'.last.step = "onInit" /\ plugin'.last.outcome = "threw") =>
               /\ plugin'.authInstance = NoAuth
               /\ plugin'.betterAuth = plugin.betterAuth
      ]_vars

----------------------------------------------------------------------------
(* SpecSlugs: the collection the plugin registers for a model and the
   collection the adapter addresses for it *)

\* The name the factory hands the operations for a model, usePlural being
\* true: the modelName option, or the model key, with 's' appended ("Using
\* plural names will result in double-pluralization").
FactoryModelName(modelKey, modelName) ==
    Append(IF modelName = NoName THEN modelKey ELSE modelName, "s")

SlugModelKeys ==
    { << "user" >>, << "session" >>, << "account" >>, << "verification" >>,
      << "passkey" >>, << "apikey" >>, << "twoFactor" >>, << "organization" >>,
      << "member" >>, << "invitation" >> }

SlugModelNames ==
    { NoName, << "user" >>, << "user", "s" >>, << "member" >>, << "customer" >>,
      << "auth", "_", "session" >>, << "auth", "_", "session", "s" >>,
      << "acces", "s" >>, << "item" >>, << "item", "s" >> }

InitSlugs ==
    /\ InitAdapter
    /\ idType = "number"
    /\ idFieldsAllowlistSet = {}
    /\ idFieldsBlocklistSet = {}
    /\ schema = SchemaWith(k_userId)
    /\ lazy = FALSE
    /\ procs = << >>
    /\ op = << >>
    /\ tr = << >>
    /\ store = << >>
    /\ lk = << >>
    /\ gen \in [kind : { "slugs" }, modelKey : SlugModelKeys, modelName : SlugModelNames,
                slug : { NoName }, collection : { NoName }]
    /\ plugin = << >>

\* The plugin computes the slug of the model's collection (usePlural true).
RegisterCollection ==
    /\ gen.slug = NoName
    /\ gen' = [gen EXCEPT !.slug =
                  pluralize(IF gen.modelName = NoName THEN gen.modelKey ELSE gen.modelName)]
    /\ UNCHANGED << configVars, clientVars, procs, op, tr, store, lk, plugin >>

\* An operation of the adapter on the model resolves its collection.
AddressCollection ==
    /\ gen.collection = NoName
    /\ gen' = [gen EXCEPT !.collection =
                  getCollection(FactoryModelName(gen.modelKey, gen.modelName))]
    /\ UNCHANGED << configVars, clientVars, procs, op, tr, store, lk, plugin >>

NextSlugs ==
    \/ RegisterCollection
    \/ AddressCollection

SpecSlugs == InitSlugs /\ [][NextSlugs]_vars

\* C30: for every model and every modelName, the collection the adapter's
\* operations address is the collection the plugin registered.
C30_SameCollection ==
    (gen.slug # NoName /\ gen.collection # NoName) => gen.collection = gen.slug

----------------------------------------------------------------------------
(* SpecFirstUsers: users created at once in an empty users collection *)

Creators == 1..NCreators

DefaultRoleOptions == [adminRole |-> Undefined, defaultRole |-> Undefined, roleField |-> NoName]

InitFirstUsers ==
    /\ InitAdapter
    /\ idType = "number"
    /\ idFieldsAllowlistSet = {}
    /\ idFieldsBlocklistSet = {}
    /\ schema = SchemaWith(k_userId)
    /\ lazy = FALSE
    /\ procs = << >>
    /\ op = << >>
    /\ tr = << >>
    /\ store = << >>
    /\ lk = << >>
    /\ gen \in [kind : { "creates" }, users : { << >> },
                creating : [Creators -> [pc : { "called" }, counted : { 0 },
                                         data : { (k_email :> TextA),
                                                  (k_email :> TextA)
                                                      @@ (k_role :> Str(<< "editor" >>)) }]]]
    /\ plugin = << >>

\* payload.create runs the beforeChange hooks: the hook counts the users
\* persisted so far and returns the data to write.
HookCounts(p) ==
    /\ gen.creating[p].pc = "called"
    /\ gen' = [gen EXCEPT !.creating[p] =
                  [pc |-> "hooked", counted |-> Len(gen.users),
                   data |-> createFirstUserAdminHook(DefaultRoleOptions, "create",
                                gen.creating[p].data, CountAnswer(Len(gen.users)))]]
    /\ UNCHANGED << configVars, clientVars, procs, op, tr, store, lk, plugin >>

\* The document is written to the collection.
Persist(p) ==
    /\ gen.creating[p].pc = "hooked"
    /\ gen' = [gen EXCEPT !.creating[p].pc = "created",
                          !.users = Append(@, gen.creating[p].data)]
    /\ UNCHANGED << configVars, clientVars, procs, op, tr, store, lk, plugin >>

NextFirstUsers ==
    \/ \E p \in Creators : HookCounts(p)
    \/ \E p \in Creators : Persist(p)

SpecFirstUsers == InitFirstUsers /\ [][NextFirstUsers]_vars

\* C26: when every creation is through, exactly one of the created users
\* was given the admin role by the hook.
C26_OneFirstUser ==
    (\A p \in Creators : gen.creating[p].pc = "created") =>
        Cardinality({ p \in Creators : gen.creating[p].counted = 0 }) = 1

----------------------------------------------------------------------------
(* API key scope enforcement (src/unnamed/part_007) *)

\* A scope string is a sequence of tokens: 'posts:read' is
\* << "posts", ":", "read" >>, 'posts:*' is << "posts", ":", "*" >>, '*' is
\* << "*" >>.
Scope(resource, action) == << resource, ":", action >>
GlobalScope == << "*" >>

\* No key: null, or the empty string (both are falsy).
NoKey == << >>

\* hashApiKey: the SHA-256 of the key; it differs from the key.
hashApiKey(key) == << "sha256" >> \o key

\* extractApiKeyFromRequest: the Authorization header without 'Bearer '.
extractApiKeyFromRequest(req) ==
    IF req.authorization.form = "none" THEN NoKey ELSE req.authorization.key

\* scope.endsWith(':*')
EndsWithWildcard(scope) ==
    /\ Len(scope) >= 2
    /\ scope[Len(scope) - 1] = ":"
    /\ scope[Len(scope)] = "*"

\* requiredScope.startsWith(prefix)
StartsWith(text, prefix) ==
    /\ Len(text) >= Len(prefix)
    /\ SubSeq(text, 1, Len(prefix)) = prefix

hasScope(keyScopes, requiredScope) ==
    \E i \in 1..Len(keyScopes) :
        \/ keyScopes[i] = requiredScope
        \/ /\ EndsWithWildcard(keyScopes[i])
           /\ StartsWith(requiredScope, SubSeq(keyScopes[i], 1, Len(keyScopes[i]) - 1))
        \/ keyScopes[i] = GlobalScope

hasAnyScope(keyScopes, requiredScopes) ==
    \E i \in 1..Len(requiredScopes) : hasScope(keyScopes, requiredScopes[i])

hasAllScopes(keyScopes, requiredScopes) ==
    \A i \in 1..Len(requiredScopes) : hasScope(keyScopes, requiredScopes[i])

\* payload.find on a collection of API keys with the where of getApiKeyInfo
\* and limit 1, followed by .catch(() => null): the enabled documents whose
\* key is the hash or the key itself; << >> stands for null and for no
\* document alike, as the caller treats them alike.
FindKey(keyStore, collection, apiKey) ==
    IF keyStore[collection].missing THEN << >>
    ELSE FirstN(SelectSeq(keyStore[collection].docs,
                    LAMBDA d : /\ d.enabled # "false"
                               /\ d.key \in { hashApiKey(apiKey), apiKey }), 1)

\* Object.entries(parsed).flatMap(...): resource:action for every action.
RECURSIVE FlattenPermissions(_)
FlattenPermissions(entries) ==
    IF entries = << >> THEN << >>
    ELSE [i \in 1..Len(Head(entries).actions) |->
              Scope(Head(entries).resource, Head(entries).actions[i])]
         \o FlattenPermissions(Tail(entries))

\* The scopes getApiKeyInfo reads from a document: those of the permissions
\* field, else the scopes array, and those of metadata.scopes before either.
ScopesOfDoc(doc) ==
    LET fromPermissions ==
            CASE doc.permissions.form = "array" -> doc.permissions.list
              [] doc.permissions.form = "object" -> FlattenPermissions(doc.permissions.list)
              [] doc.permissions.form = "csv" ->
                    SelectSeq(doc.permissions.list, LAMBDA s : s # << >>)
              [] OTHER -> IF doc.scopes.given THEN doc.scopes.list ELSE << >>
    IN  IF doc.metadataScopes.given THEN doc.metadataScopes.list ELSE fromPermissions

\* getApiKeyInfo: the key's info, or NoKeyInfo (null).
NoKeyInfo == [found |-> FALSE, scopes |-> << >>, userId |-> 0]

getApiKeyInfo(keyStore, apiKey, apiKeysCollection) ==
    LET altSlug == IF apiKeysCollection = "apiKeys" THEN "api-keys" ELSE "apiKeys"
        first == FindKey(keyStore, apiKeysCollection, apiKey)
        results == IF Len(first) = 0 THEN FindKey(keyStore, altSlug, apiKey) ELSE first
    IN  IF Len(results) = 0 THEN NoKeyInfo
        ELSE IF results[1].owner = 0 THEN NoKeyInfo
             ELSE [found |-> TRUE, scopes |-> ScopesOfDoc(results[1]),
                   userId |-> results[1].owner]

\* The test of the key's scopes each of the three builders ends with.
ScopeTest(builder, keyScopes, required) ==
    CASE builder = "requireScope" -> hasScope(keyScopes, required[1])
      [] builder = "requireAnyScope" -> hasAnyScope(keyScopes, required)
      [] OTHER -> hasAllScopes(keyScopes, required)

\* A faulty variant: a request with a user is granted before its key is looked at.
ScopeAccessSessionFirst(builder, required, config, req, keyStore) ==
    LET apiKey == extractApiKeyFromRequest(req)
        keyInfo == getApiKeyInfo(keyStore, apiKey, config.apiKeysCollection)
    IN  IF config.allowAuthenticatedUsers /\ req.user THEN TRUE
        ELSE IF apiKey = NoKey THEN FALSE
             ELSE IF ~ keyInfo.found THEN FALSE
                  ELSE ScopeTest(builder, keyInfo.scopes, required)

\* The access function requireScope, requireAnyScope and requireAllScopes
\* return, applied to a request.
ScopeAccess(builder, required, config, req, keyStore) ==
    LET apiKey == extractApiKeyFromRequest(req)
        keyInfo == getApiKeyInfo(keyStore, apiKey, config.apiKeysCollection)
    IN  IF config.allowAuthenticatedUsers /\ req.user /\ apiKey = NoKey THEN TRUE
        ELSE IF apiKey = NoKey THEN FALSE
             ELSE IF ~ keyInfo.found THEN FALSE
                  ELSE ScopeTest(builder, keyInfo.scopes, required)

----------------------------------------------------------------------------
(* SpecScopes: the access functions applied to enumerated requests *)

Key1 == << "k", "1" >>
Key2 == << "k", "2" >>

NotGiven == [given |-> FALSE, list |-> << >>]
Given(list) == [given |-> TRUE, list |-> list]
NoPermissions == [form |-> "none", list |-> << >>]

KeyDoc(key, enabled, permissions, scopes, metadataScopes, owner) ==
    [key |-> key, enabled |-> enabled, permissions |-> permissions, scopes |-> scopes,
     metadataScopes |-> metadataScopes, owner |-> owner]

KeyDocs ==
    << KeyDoc(hashApiKey(Key1), "true", NoPermissions,
              Given(<< Scope("posts", "read") >>), NotGiven, 5),
       KeyDoc(hashApiKey(Key1), "false", NoPermissions, Given(<< GlobalScope >>), NotGiven, 5),
       KeyDoc(Key1, "unset", [form |-> "array", list |-> << Scope("posts", "*") >>],
              NotGiven, NotGiven, 5),
       KeyDoc(hashApiKey(Key1), "true",
              [form |-> "object",
               list |-> << [resource |-> "posts", actions |-> << "read", "write" >>] >>],
              NotGiven, NotGiven, 5),
       KeyDoc(hashApiKey(Key1), "true",
              [form |-> "object", list |-> << [resource |-> "posts", actions |-> << "$" >>] >>],
              NotGiven, Given(<< GlobalScope >>), 5),
       KeyDoc(hashApiKey(Key1), "true",
              [form |-> "csv", list |-> << Scope("posts", "write"), << >> >>],
              NotGiven, NotGiven, 5),
       KeyDoc(hashApiKey(Key1), "true", NoPermissions, Given(<< GlobalScope >>), NotGiven, 0),
       KeyDoc(hashApiKey(Key2), "true", NoPermissions, Given(<< GlobalScope >>), NotGiven, 5),
       KeyDoc(hashApiKey(Key1), "true", NoPermissions, NotGiven, NotGiven, 5) >>

KeySlugs == { "apiKeys", "api-keys" }

KeyCollection(missing, docs) == [missing |-> missing, docs |-> docs]

KeyStoreOf(primary, alternative) ==
    [slug \in KeySlugs |-> IF slug = "apiKeys" THEN primary ELSE alternative]

KeyStores ==
    { KeyStoreOf(KeyCollection(TRUE, << >>), KeyCollection(TRUE, << >>)) }
    \cup { KeyStoreOf(KeyCollection(FALSE, << KeyDocs[i] >>), KeyCollection(TRUE, << >>)) :
             i \in 1..Len(KeyDocs) }
    \cup { KeyStoreOf(KeyCollection(TRUE, << >>), KeyCollection(FALSE, << KeyDocs[1] >>)),
           KeyStoreOf(KeyCollection(FALSE, << >>), KeyCollection(FALSE, << KeyDocs[4] >>)),
           KeyStoreOf(KeyCollection(FALSE, << KeyDocs[2], KeyDocs[3] >>),
                      KeyCollection(FALSE, << >>)) }

ScopeRequests ==
    [user : BOOLEAN,
     authorization : { [form |-> "none", key |-> NoKey], [form |-> "bearer", key |-> Key1],
                       [form |-> "raw", key |-> Key1], [form |-> "bearer", key |-> NoKey],
                       [form |-> "bearer", key |-> << "k", "3" >>] }]

ScopeRequirements ==
    { [builder |-> "requireScope", required |-> << s >>] :
        s \in { Scope("posts", "read"), Scope("posts", "delete"), Scope("users", "read") } }
    \cup { [builder |-> "requireAnyScope", required |-> l] :
             l \in { << Scope("posts", "delete"), Scope("posts", "read") >>, << >> } }
    \cup { [builder |-> "requireAllScopes", required |-> l] :
             l \in { << Scope("posts", "read"), Scope("posts", "write") >>,
                     << Scope("posts", "read") >>, << >> } }

InitScopes ==
    /\ InitAdapter
    /\ idType = "number"
    /\ idFieldsAllowlistSet = {}
    /\ idFieldsBlocklistSet = {}
    /\ schema = SchemaWith(k_userId)
    /\ lazy = FALSE
    /\ procs = << >>
    /\ op = << >>
    /\ tr = << >>
    /\ store = << >>
    /\ lk = << >>
    /\ gen \in [kind : { "access" }, requirement : ScopeRequirements,
                config : [apiKeysCollection : KeySlugs, allowAuthenticatedUsers : BOOLEAN],
                req : ScopeRequests, keyStore : KeyStores, result : { "pending" }]
    /\ plugin = << >>

\* Payload evaluates the access function of the named builder on the request.
AccessRuns(builder) ==
    /\ gen.result = "pending"
    /\ gen.requirement.builder = builder
    /\ gen' = [gen EXCEPT !.result =
                  IF ScopeAccess(builder, gen.requirement.required, gen.config, gen.req,
                                 gen.keyStore)
                  THEN "granted" ELSE "denied"]
    /\ UNCHANGED << configVars, clientVars, procs, op, tr, store, lk, plugin >>

NextScopes ==
    \/ AccessRuns("requireScope")
    \/ AccessRuns("requireAnyScope")
    \/ AccessRuns("requireAllScopes")

SpecScopes == InitScopes /\ [][NextScopes]_vars

\* The enabled documents of either collection that hold the request's key.
KeyDocsOfRequest ==
    { d \in UNION { { gen.keyStore[slug].docs[i] : i \in 1..Len(gen.keyStore[slug].docs) } :
                      slug \in { s \in KeySlugs : ~ gen.keyStore[s].missing } } :
        /\ d.enabled # "false"
        /\ d.key \in { hashApiKey(gen.req.authorization.key), gen.req.authorization.key } }

\* A scope of a key grants a required scope: the same scope, the wildcard
\* of its resource, or the global wildcard.
Grants(scope, required) ==
    \/ scope = required
    \/ scope = GlobalScope
    \/ scope = Scope(required[1], "*")

DocSatisfies(d) ==
    LET granted(required) ==
            \E i \in 1..Len(ScopesOfDoc(d)) : Grants(ScopesOfDoc(d)[i], required)
        required == gen.requirement.required
    IN  CASE gen.requirement.builder = "requireScope" -> granted(required[1])
          [] gen.requirement.builder = "requireAnyScope" ->
                \E i \in 1..Len(required) : granted(required[i])
          [] OTHER -> \A i \in 1..Len(required) : granted(required[i])

AccessDecided == gen.kind = "access" /\ gen.result # "pending"

RequestHasKey == gen.req.authorization.key # NoKey

\* C21: a request without API key is granted exactly when authenticated
\* users are allowed and req.user is set; a request with an API key is
\* granted only if an enabled document holds the key and its scopes satisfy
\* the requirement, and its decision does not depend on req.user.
C21_ScopeAccess ==
    AccessDecided =>
        IF ~ RequestHasKey
        THEN gen.result = "granted" <=>
                 (gen.config.allowAuthenticatedUsers /\ gen.req.user)
        ELSE /\ gen.result = "granted" =>
                    \E d \in KeyDocsOfRequest : DocSatisfies(d)
             /\ KeyDocsOfRequest = {} => gen.result = "denied"
             /\ \A user \in BOOLEAN :
                    ScopeAccess(gen.requirement.builder, gen.requirement.required, gen.config,
                                [gen.req EXCEPT !.user = user], gen.keyStore)
                        <=> (gen.result = "granted")

\* A signed-in user sends a key whose scopes do not satisfy the requirement,
\* authenticated users being allowed: denied.
C21_Witness ==
    /\ AccessDecided
    /\ RequestHasKey
    /\ gen.req.user
    /\ gen.config.allowAuthenticatedUsers
    /\ KeyDocsOfRequest # {}
    /\ \A d \in KeyDocsOfRequest : ~ DocSatisfies(d)
    /\ gen.result = "denied"

----------------------------------------------------------------------------
(* SpecApiKey: handleApiKeyCreateWithScopes (src/src/plugin/index.ts) *)

\* A thrown value: an Error or not, and what its message (or its String)
\* mentions, whatever the case of the letters.
Thrown(isError, metadata, disabled) ==
    [isError |-> isError, metadata |-> metadata, disabled |-> disabled]

ThrownValues ==
    { Thrown(e, m, d) : e \in BOOLEAN, m \in BOOLEAN, d \in BOOLEAN }

\* What authApi.getSession answers.
SessionAnswers ==
    { [kind |-> "throw", err |-> Thrown(TRUE, FALSE, FALSE)],
      [kind |-> "null"], [kind |-> "noUser"], [kind |-> "noUserId"], [kind |-> "user"] }

\* What authApi.createApiKey answers.
CreateAnswers ==
    { [kind |-> "key"] } \cup { [kind |-> "throw", err |-> e] : e \in ThrownValues }

JsonResponse(status, body) == [status |-> status, body |-> body]

NoResponse == JsonResponse(0, "none")

\* The outer catch: 500 with the error's message.
ErrorResponse(error) ==
    JsonResponse(500, IF error.isError THEN "message" ELSE "Failed to create API key")

\* createOptions.body.metadata: the body's metadata with the scopes added
\* when there are scopes, else the body's metadata.
MetadataSent(body) == IF Len(body.scopes) > 0 THEN TRUE ELSE body.metadata

\* A faulty variant: any error about metadata is retried.
ShouldRetryOnMetadata(createError, metadataSent) ==
    createError.metadata /\ metadataSent

\* isMetadataDisabled && createOptions.body.metadata
ShouldRetry(createError, metadataSent) ==
    createError.metadata /\ createError.disabled /\ metadataSent

ApiKeyBodies == [scopes : { << >>, << Scope("posts", "read") >> }, metadata : BOOLEAN]

InitApiKey ==
    /\ InitAdapter
    /\ idType = "number"
    /\ idFieldsAllowlistSet = {}
    /\ idFieldsBlocklistSet = {}
    /\ schema = SchemaWith(k_userId)
    /\ lazy = FALSE
    /\ procs = << >>
    /\ op = << >>
    /\ tr = << >>
    /\ store = << >>
    /\ lk = << >>
    /\ gen \in [kind : { "apikey" }, pc : { "called" }, body : ApiKeyBodies,
                hasCreateApiKey : BOOLEAN, session : { "none" }, attempts : { << >> },
                response : { NoResponse }]
    /\ plugin = << >>

\* getSession answered: 401 without a user id, 500 when it threw, 400
\* without createApiKey, else the first call of createApiKey.
SessionAnswered(s) ==
    /\ gen.pc = "called"
    /\ gen' =
         IF s.kind = "throw"
         THEN [gen EXCEPT !.pc = "done", !.session = s.kind,
                          !.response = ErrorResponse(s.err)]
         ELSE IF s.kind # "user"
              THEN [gen EXCEPT !.pc = "done", !.session = s.kind,
                               !.response = JsonResponse(401, "Unauthorized")]
              ELSE IF ~ gen.hasCreateApiKey
                   THEN [gen EXCEPT !.pc = "done", !.session = s.kind,
                                    !.response = JsonResponse(400, "API key plugin not enabled")]
                   ELSE [gen EXCEPT !.pc = "awaitCreate", !.session = s.kind,
                                    !.attempts = << [metadata |-> MetadataSent(gen.body),
                                                     answer |-> "pending"] >>]
    /\ UNCHANGED << configVars, clientVars, procs, op, tr, store, lk, plugin >>

\* The first createApiKey answered: 200 with the key, the retry without
\* metadata, or 500 through the outer catch.
CreateAnswered(r) ==
    /\ gen.pc = "awaitCreate"
    /\ gen' =
         IF r.kind = "key"
         THEN [gen EXCEPT !.pc = "done", !.attempts[1].answer = r,
                          !.response = JsonResponse(200, "key")]
         ELSE IF ShouldRetry(r.err, gen.attempts[1].metadata)
              THEN [gen EXCEPT !.pc = "awaitRetry", !.attempts[1].answer = r,
                               !.attempts = Append(@, [metadata |-> FALSE,
                                                       answer |-> "pending"])]
              ELSE [gen EXCEPT !.pc = "done", !.attempts[1].answer = r,
                               !.response = ErrorResponse(r.err)]
    /\ UNCHANGED << configVars, clientVars, procs, op, tr, store, lk, plugin >>

\* The retry answered: 200 with the key, or 500 through the outer catch.
RetryAnswered(r) ==
    /\ gen.pc = "awaitRetry"
    /\ gen' = [gen EXCEPT !.pc = "done", !.attempts[2].answer = r,
                          !.response = IF r.kind = "key" THEN JsonResponse(200, "key")
                                       ELSE ErrorResponse(r.err)]
    /\ UNCHANGED << configVars, clientVars, procs, op, tr, store, lk, plugin >>

NextApiKey ==
    \/ \E s \in SessionAnswers : SessionAnswered(s)
    \/ \E r \in CreateAnswers : CreateAnswered(r)
    \/ \E r \in CreateAnswers : RetryAnswered(r)

SpecApiKey == InitApiKey /\ [][NextApiKey]_vars

HandlerDone == gen.kind = "apikey" /\ gen.pc = "done"

----------------------------------------------------------------------------
(* SpecLogin: LoginView (src/unnamed/part_001) *)

RoleNames == { "admin", "editor" }

\* requiredRole: null disables the check, else the list of roles.
NoRole == << >>

RequiredRoles == { NoRole, << "admin" >>, << "admin", "editor" >> }

LoginUser(roles) == [present |-> TRUE, role |-> roles]

NoLoginUser == [present |-> FALSE, role |-> {}]

\* ../utils/access.js: the user holds one of the roles, all of the roles.
hasAnyRole(user, roles) == \E i \in DOMAIN roles : roles[i] \in user.role

hasAllRoles(user, roles) == \A i \in DOMAIN roles : roles[i] \in user.role

checkUserRoles(user, requiredRole, requireAllRoles) ==
    IF requiredRole = NoRole THEN TRUE
    ELSE IF ~ user.present THEN FALSE
    ELSE IF requireAllRoles THEN hasAllRoles(user, requiredRole)
    ELSE hasAnyRole(user, requiredRole)

\* What a call of the auth client answers: it throws, or gives an error, a
\* two-factor redirect, or data with or without a user.
ClientResult(kind, user) == [kind |-> kind, user |-> user]

LoginUsers == { LoginUser(r) : r \in SUBSET RoleNames } \cup { NoLoginUser }

ClientResults ==
    { ClientResult(k, NoLoginUser) : k \in { "throw", "error", "twoFactor" } }
        \cup { ClientResult("data", u) : u \in LoginUsers }

SessionResults == { r \in ClientResults : r.kind \in { "throw", "data" } }

InitLogin ==
    /\ InitAdapter
    /\ idType = "number"
    /\ idFieldsAllowlistSet = {}
    /\ idFieldsBlocklistSet = {}
    /\ schema = SchemaWith(k_userId)
    /\ lazy = FALSE
    /\ procs = << >>
    /\ op = << >>
    /\ tr = << >>
    /\ store = << >>
    /\ lk = << >>
    /\ gen \in [kind : { "login" }, requiredRole : RequiredRoles, requireAllRoles : BOOLEAN,
                viewMode : { "login" }, pc : { "checkSession" }, path : { "mount" },
                accessDenied : { FALSE }, navigated : { FALSE },
                checkedUser : { NoLoginUser }]
    /\ plugin = << >>

LoginUnchanged == UNCHANGED << configVars, clientVars, procs, op, tr, store, lk, plugin >>

\* router.push(afterLoginPath), u being the user the role check passed on.
Navigate(u) == [gen EXCEPT !.pc = "left", !.navigated = TRUE, !.checkedUser = u]

Denied == [gen EXCEPT !.pc = "idle", !.accessDenied = TRUE]

Stay == [gen EXCEPT !.pc = "idle"]

\* The check that the handlers make on a user they hold.
CheckThenNavigate(u) ==
    IF checkUserRoles(u, gen.requiredRole, gen.requireAllRoles) THEN Navigate(u) ELSE Denied

\* checkSession, after getSession answered.
checkSession(r) ==
    /\ gen.pc = "checkSession"
    /\ gen' = IF r.kind = "data" /\ r.user.present THEN CheckThenNavigate(r.user) ELSE Stay
    /\ LoginUnchanged

FormShown == gen.pc = "idle" /\ ~ gen.accessDenied

handleSubmit ==
    /\ FormShown
    /\ gen.viewMode = "login"
    /\ gen' = [gen EXCEPT !.pc = "signIn", !.path = "email"]
    /\ LoginUnchanged

\* handleSubmit, after signIn.email answered.
SignInAnswered(r) ==
    /\ gen.pc = "signIn"
    /\ gen' = IF r.kind = "twoFactor" THEN [gen EXCEPT !.pc = "idle", !.viewMode = "twoFactor"]
              ELSE IF r.kind = "data" /\ r.user.present THEN CheckThenNavigate(r.user)
              ELSE Stay
    /\ LoginUnchanged

handleSignUp ==
    /\ FormShown
    /\ gen.viewMode = "register"
    /\ gen' = [gen EXCEPT !.pc = "signUp", !.path = "signUp"]
    /\ LoginUnchanged

\* handleSignUp, after signUp.email answered.
SignUpAnswered(r) ==
    /\ gen.pc = "signUp"
    /\ r.kind # "twoFactor"
    /\ gen' = IF r.kind = "data" /\ r.user.present THEN CheckThenNavigate(r.user)
              ELSE IF r.kind = "data" THEN [gen EXCEPT !.pc = "idle", !.viewMode = "login"]
              ELSE Stay
    /\ LoginUnchanged

handleTotpVerify ==
    /\ FormShown
    /\ gen.viewMode = "twoFactor"
    /\ gen' = [gen EXCEPT !.pc = "verifyTotp", !.path = "totp"]
    /\ LoginUnchanged

\* handleTotpVerify, after twoFactor.verifyTotp answered: with a required
\* role the session is fetched, else the router is pushed.
TotpAnswered(r) ==
    /\ gen.pc = "verifyTotp"
    /\ r.kind # "twoFactor"
    /\ gen' = IF r.kind \in { "throw", "error" } THEN Stay
              ELSE IF gen.requiredRole # NoRole THEN [gen EXCEPT !.pc = "totpSession"]
              ELSE Navigate(NoLoginUser)
    /\ LoginUnchanged

\* handleTotpVerify, after getSession answered: the check is made only
\* when the session holds a user, and the router is pushed after it.
TotpSessionAnswered(r) ==
    /\ gen.pc = "totpSession"
    /\ gen' = IF r.kind = "throw" THEN Stay
              ELSE IF r.user.present THEN CheckThenNavigate(r.user)
              ELSE Navigate(NoLoginUser)
    /\ LoginUnchanged

handlePasskeySignIn ==
    /\ FormShown
    /\ gen.viewMode = "login"
    /\ gen' = [gen EXCEPT !.pc = "passkey", !.path = "passkey"]
    /\ LoginUnchanged

\* handlePasskeySignIn, after signIn.passkey answered.
PasskeyAnswered(r) ==
    /\ gen.pc = "passkey"
    /\ r.kind # "twoFactor"
    /\ gen' = IF r.kind \in { "throw", "error" } THEN Stay
              ELSE [gen EXCEPT !.pc = "passkeySession"]
    /\ LoginUnchanged

\* handlePasskeySignIn, after getSession answered.
PasskeySessionAnswered(r) ==
    /\ gen.pc = "passkeySession"
    /\ gen' = IF r.kind = "data" /\ r.user.present THEN CheckThenNavigate(r.user) ELSE Stay
    /\ LoginUnchanged

switchView(newView) ==
    /\ FormShown
    /\ gen.viewMode # newView
    /\ gen' = [gen EXCEPT !.viewMode = newView]
    /\ LoginUnchanged

handleSignOut ==
    /\ gen.pc = "idle"
    /\ gen.accessDenied
    /\ gen' = [gen EXCEPT !.accessDenied = FALSE]
    /\ LoginUnchanged

NextLogin ==
    \/ \E r \in SessionResults : checkSession(r)
    \/ handleSubmit
    \/ \E r \in ClientResults : SignInAnswered(r)
    \/ handleSignUp
    \/ \E r \in ClientResults : SignUpAnswered(r)
    \/ handleTotpVerify
    \/ \E r \in ClientResults : TotpAnswered(r)
    \/ \E r \in SessionResults : TotpSessionAnswered(r)
    \/ handlePasskeySignIn
    \/ \E r \in ClientResults : PasskeyAnswered(r)
    \/ \E r \in SessionResults : PasskeySessionAnswered(r)
    \/ \E v \in { "login", "register" } : switchView(v)
    \/ handleSignOut

SpecLogin == InitLogin /\ [][NextLogin]_vars

\* C24: with a required role, the view has navigated only after the role
\* check passed on the data of the signed-in user, and it has not navigated
\* while showing Access Denied.
C24_NavigationAfterRoleCheck ==
    (gen.kind = "login" /\ gen.requiredRole # NoRole /\ gen.navigated) =>
        /\ gen.checkedUser.present
        /\ checkUserRoles(gen.checkedUser, gen.requiredRole, gen.requireAllRoles)
        /\ ~ gen.accessDenied

----------------------------------------------------------------------------
(* SpecStrategy: betterAuthStrategy().authenticate (src/src/plugin/index.ts) *)

k_createdAt == << "createdAt" >>

k_organizationRole == << "organizationRole" >>

k_collection == << "collection" >>

k_strategy == << "_strategy" >>

\* The keys the strategy sets itself.
StrategyKeys == { k_collection, k_strategy, k_organizationRole }

Truthy(v) ==
    CASE v.t = "string" -> v.s # << >>
      [] v.t = "number" -> v.n # 0
      [] OTHER -> FALSE

\* const { id, userId, expiresAt, token, ...sessionFields } = session || {}
SessionFieldsOf(session) ==
    [k \in (DOMAIN session) \ { k_id, k_userId, k_expiresAt, k_token } |-> session[k]]

\* key === 'id' || /(?:Id|_id)$/.test(key)
IsIdKey(key) == key = k_id \/ key[Len(key)] \in { "Id", "_id" }

\* With serial ids, the all-digit strings under id keys become numbers.
CoerceSessionFields(strategyIdType, sessionFields) ==
    [k \in DOMAIN sessionFields |->
        IF strategyIdType = "number" /\ sessionFields[k].t = "string"
               /\ IsIdKey(k) /\ AllDigits(sessionFields[k].s)
        THEN parseInt(sessionFields[k].s)
        ELSE sessionFields[k]]

\* The role of the membership found, undefined when none was found, when
\* the find threw or when there is no active organization.
OrganizationRoleOf(sessionFields, memberships) ==
    IF In(k_activeOrganizationId, sessionFields)
           /\ Truthy(sessionFields[k_activeOrganizationId])
           /\ memberships.kind = "docs"
    THEN memberships.role
    ELSE Undefined

StrategyTail(organizationRole) ==
    Spread(IF Truthy(organizationRole)
           THEN (k_organizationRole :> organizationRole) ELSE EmptyObject,
           (k_collection :> Str(<< "users" >>)) @@ (k_strategy :> Str(<< "better-auth" >>)))

NoStrategyUser == EmptyObject

\* authenticate:
\*   { ...users.docs[0], ...sessionFields, organizationRole?, collection, _strategy }
authenticate(strategyIdType, hasAuth, sessionData, users, memberships) ==
    IF ~ hasAuth \/ sessionData.kind # "session" \/ users = << >>
    THEN NoStrategyUser
    ELSE Spread(Spread(users[1],
                       CoerceSessionFields(strategyIdType, SessionFieldsOf(sessionData.session))),
                StrategyTail(OrganizationRoleOf(
                    CoerceSessionFields(strategyIdType, SessionFieldsOf(sessionData.session)),
                    memberships)))

UserDocs ==
    { Spread((k_id :> Num(1)), o) :
        o \in ObjectsOver({ k_email, k_createdAt, k_activeOrganizationId },
                          (k_email :> { Str(<< "a" >>) })
                              @@ (k_createdAt :> { Str(<< "1" >>) })
                              @@ (k_activeOrganizationId :> { Num(5) })) }

StrategySessions ==
    ObjectsOver({ k_id, k_token, k_createdAt, k_activeOrganizationId },
                (k_id :> { Str(<< "9" >>) })
                    @@ (k_token :> { Str(<< "t" >>) })
                    @@ (k_createdAt :> { Str(<< "2" >>) })
                    @@ (k_activeOrganizationId :> { Str(<< "7" >>), Str(<< "0" >>), Str(<< "o" >>) }))

SessionDatas ==
    { [kind |-> "none", session |-> EmptyObject], [kind |-> "throw", session |-> EmptyObject] }
        \cup { [kind |-> "session", session |-> s] : s \in StrategySessions }

Memberships ==
    { [kind |-> "throw", role |-> Undefined], [kind |-> "empty", role |-> Undefined],
      [kind |-> "docs", role |-> Undefined], [kind |-> "docs", role |-> Str(<< "owner" >>)] }

InitStrategy ==
    /\ InitAdapter
    /\ idType = "number"
    /\ idFieldsAllowlistSet = {}
    /\ idFieldsBlocklistSet = {}
    /\ schema = SchemaWith(k_userId)
    /\ lazy = FALSE
    /\ procs = << >>
    /\ op = << >>
    /\ tr = << >>
    /\ store = << >>
    /\ lk = << >>
    /\ gen \in [kind : { "strategy" }, idType : { "number", "text" }, hasAuth : BOOLEAN,
                sessionData : SessionDatas, users : { << >> } \cup { << d >> : d \in UserDocs },
                memberships : Memberships, ran : { FALSE }, user : { NoStrategyUser }]
    /\ plugin = << >>

Authenticate ==
    /\ gen.kind = "strategy"
    /\ ~ gen.ran
    /\ gen' = [gen EXCEPT !.ran = TRUE,
                          !.user = authenticate(gen.idType, gen.hasAuth, gen.sessionData,
                                                gen.users, gen.memberships)]
    /\ UNCHANGED << configVars, clientVars, procs, op, tr, store, lk, plugin >>

NextStrategy == Authenticate

SpecStrategy == InitStrategy /\ [][NextStrategy]_vars

\* C29: the user that authenticate returns holds, under every key of the
\* fetched user document other than collection, _strategy and
\* organizationRole, the value the document holds.
C29_UserFieldsKept ==
    (gen.kind = "strategy" /\ gen.ran /\ gen.user # NoStrategyUser) =>
        \A k \in (DOMAIN gen.users[1]) \ StrategyKeys :
            gen.user[k] = gen.users[1][k]

====
